---- MODULE Spec2Model ----
(***************************************************************************)
(* A model of the geometric core of darts (the Dartmouth Academic Ray      *)
(* Tracing Skeleton): boxes, rays, transforms, surfaces, surface groups    *)
(* and the bounding box hierarchy, as they are written in the sources.     *)
(*                                                                         *)
(* Floats are modelled as exact rationals extended with the IEEE special   *)
(* values (+inf, -inf, NaN and negative zero); rounding is not modelled.   *)
(***************************************************************************)
EXTENDS Integers, Sequences, FiniteSets, TLC

VARIABLES
    \* --- Box experiments (box.h) ---
    bstep,      \* which Box operation is exercised: "isect" | "enclose" | "idle"
    box,        \* the Box B under test
    bray,       \* the Ray handed to Box::intersect
    boxHit,     \* result of Box::intersect: "none" before the call, else "true"/"false"
    acc,        \* the Box that B is enclosed into (default constructed)
    accDone,    \* TRUE once acc.enclose(B) has run
    \* --- Transform experiments (transform.h) ---
    xstep,      \* "idle" | "start" | "lhs" | "done"
    T1, T2,     \* the two transforms
    xp,         \* a test point
    xray,       \* a test ray
    xlhs, xrhs, \* (T1*T2).inverse() and T2.inverse()*T1.inverse()
    xround,     \* T1.inverse().point(T1.point(xp)), or NoVal
    xrayOut,    \* T1.ray(xray), or NoVal
    laInverseCalls, \* number of la::inverse evaluations since Init
    \* --- one BBH and one SurfaceGroup over the same children ---
    phase,      \* "idle" | "assemble" | "built"
    grp,        \* the SurfaceGroup
    bbh,        \* the BBH
    ray,        \* the ray of the query
    hit0,       \* the caller's hit record before the call
    resG,       \* result of SurfaceGroup::intersect, [done, ret, hit]
    resB,       \* result of BBH::intersect
    resL,       \* result of intersect on one leaf child
    \* --- scene / test loading ---
    lstep,      \* "idle" | "json" | "loaded" | "queried"
    desc,       \* the json description being loaded
    loader,     \* "scene" | "test_surface" | "test_surfaces"
    tab,        \* table of the surfaces created so far
    top,        \* id of the surface the query is sent to
    \* --- concurrent intersect calls ---
    tstep,      \* "idle" | "run"
    tree,       \* the built shape tree the threads share
    trays,      \* per thread: the ray of its intersect call
    been_here,  \* the static flag of each put_your_code_here site
    tpc,        \* per thread: how many put_your_code_here sites its call has passed
    tsub,       \* per thread: "call" | "read" | "write" | "done"
    tstat,      \* per thread: thread-local statistics counter
    sharedWrites, \* number of writes to shared state made by intersect calls
    \* --- single calls on one surface ---
    cstep,      \* "idle" | "ready" | "done"
    cop,        \* the member function called
    cself,      \* the object the call is made on, as it was before the call
    carg,       \* the argument of the call (ray, child, rv1, json value)
    chit,       \* the caller's hit record before an intersect call
    cout,       \* what the call left behind: return value, exception, out-parameters
    \* --- PointKDTree and KNNSearch (point_kdtree.h, photon.h) ---
    kstep,      \* "idle" | "insert" | "built" | "search" | "done"
    knodes,     \* PointKDTree::nodes, each [position, axis]
    kbounds,    \* PointKDTree::bounds
    ksearch,    \* the KNNSearch object
    klo, khi,   \* the index range find() is looking at
    ktodo,      \* the stack of index ranges find() still has to visit
    \* --- Barrier (parallel.h) ---
    bpc,        \* per thread: its position in block()
    m_mutex,    \* 0 when free, else the thread that holds it
    m_num_to_block, m_num_to_exit, \* the counters of the Barrier
    bret,       \* per thread: the value block() returned, or "none"
    bdeleted,   \* TRUE once the barrier has been deleted
    bstale,     \* TRUE once a thread has used the barrier after its deletion
    \* --- Array2d (array2d.h) ---
    astep,      \* "idle" | "ready" | "done"
    arr,        \* the Array2d: [m_size, m_data]
    ax, ay,     \* the arguments of at(x, y)
    aout,       \* the outcome of at(x, y): [threw, index]
    \* --- a shape tree whose groups are shared by pointer ---
    gstep,      \* "idle" | "run"
    gheap       \* the SurfaceGroup objects: [m_xform, m_surfaces, m_bounds]

boxVars   == <<bstep, box, bray, boxHit, acc, accDone>>
xfVars    == <<xstep, T1, T2, xp, xray, xlhs, xrhs, xround, xrayOut, laInverseCalls>>
isectVars == <<phase, grp, bbh, ray, hit0, resG, resB, resL>>
loadVars  == <<lstep, desc, loader, tab, top>>
raceVars  == <<tstep, tree, trays, been_here, tpc, tsub, tstat, sharedWrites>>
callVars  == <<cstep, cop, cself, carg, chit, cout>>
kdVars    == <<kstep, knodes, kbounds, ksearch, klo, khi, ktodo>>
barVars   == <<bpc, m_mutex, m_num_to_block, m_num_to_exit, bret, bdeleted, bstale>>
arrVars   == <<astep, arr, ax, ay, aout>>
heapVars  == <<gstep, gheap>>
extVars   == <<callVars, kdVars, barVars, arrVars, heapVars>>
vars      == <<boxVars, xfVars, isectVars, loadVars, raceVars, extVars>>

NoVal == [none |-> TRUE]

(***************************************************************************)
(* Bounds of the model.                                                    *)
(***************************************************************************)
MaxCoord    == 2   \* box corners range over 0..MaxCoord, ray origins one beyond
MaxChildren == 2   \* children added to a group
MaxThreads  == 2   \* threads calling intersect concurrently
MaxKids     == 2   \* children listed in one json group description
MaxPoints   == 3   \* points inserted into a PointKDTree
MaxCount    == 2   \* largest max_count of a KNNSearch
MaxSide     == 3   \* largest width and height of an Array2d
MaxGroups   == 2   \* SurfaceGroup objects of a shape tree
MaxTasks    == 4   \* largest number of tasks a Barrier is constructed for
MaxCommands == 3   \* longest list of transformation commands

(***************************************************************************)
(* Floats: [k, n, d] with k the kind, n/d the value of a finite float.     *)
(***************************************************************************)
RECURSIVE Gcd(_, _)
Gcd(a, b) == IF b = 0 THEN a ELSE Gcd(b, a % b)

IAbs(i) == IF i < 0 THEN -i ELSE i

PInf == [k |-> "pinf", n |-> 0, d |-> 1]
NInf == [k |-> "ninf", n |-> 0, d |-> 1]
NaN  == [k |-> "nan",  n |-> 0, d |-> 1]
NegZero == [k |-> "nz", n |-> 0, d |-> 1]

\* the finite float n/d, d # 0, in lowest terms with a positive denominator
Frac(n, d) ==
    LET g == Gcd(IAbs(n), IAbs(d))
        s == IF d < 0 THEN -1 ELSE 1
    IN  [k |-> "fin", n |-> (s * n) \div g, d |-> (s * d) \div g]

F(i) == [k |-> "fin", n |-> i, d |-> 1]

IsNaN(a)  == a.k = "nan"
IsInf(a)  == a.k \in {"pinf", "ninf"}
IsZero(a) == a.k = "nz" \/ (a.k = "fin" /\ a.n = 0)
\* the sign bit of a float
SignBit(a) == a.k \in {"nz", "ninf"} \/ (a.k = "fin" /\ a.n < 0)

Neg(a) ==
    CASE a.k = "nan"  -> NaN
      [] a.k = "pinf" -> NInf
      [] a.k = "ninf" -> PInf
      [] a.k = "nz"   -> F(0)
      [] OTHER        -> IF a.n = 0 THEN NegZero ELSE Frac(-a.n, a.d)

Add(a, b) ==
    CASE IsNaN(a) \/ IsNaN(b) -> NaN
      [] IsInf(a) /\ IsInf(b) -> IF a.k = b.k THEN a ELSE NaN
      [] IsInf(a) -> a
      [] IsInf(b) -> b
      [] a.k = "nz" /\ b.k = "nz" -> NegZero
      [] OTHER -> LET g == Gcd(a.d, b.d)
                  IN  Frac(a.n * (b.d \div g) + b.n * (a.d \div g), (a.d \div g) * b.d)

Sub(a, b) == Add(a, Neg(b))

Mul(a, b) ==
    LET neg == SignBit(a) # SignBit(b) IN
    CASE IsNaN(a) \/ IsNaN(b) -> NaN
      [] (IsInf(a) /\ IsZero(b)) \/ (IsZero(a) /\ IsInf(b)) -> NaN
      [] IsInf(a) \/ IsInf(b) -> IF neg THEN NInf ELSE PInf
      [] IsZero(a) \/ IsZero(b) -> IF neg THEN NegZero ELSE F(0)
      [] OTHER -> Frac(a.n * b.n, a.d * b.d)

\* T(1) / a
Recip(a) ==
    CASE IsNaN(a) -> NaN
      [] a.k = "pinf" -> F(0)
      [] a.k = "ninf" -> NegZero
      [] a.k = "nz"   -> NInf
      [] OTHER -> IF a.n = 0 THEN PInf ELSE Frac(a.d, a.n)

Div(a, b) == Mul(a, Recip(b))

\* a < b on floats: false as soon as one side is NaN
Less(a, b) ==
    CASE IsNaN(a) \/ IsNaN(b) -> FALSE
      [] a.k = "ninf" -> b.k # "ninf"
      [] b.k = "pinf" -> a.k # "pinf"
      [] a.k = "pinf" \/ b.k = "ninf" -> FALSE
      [] OTHER -> a.n * b.d < b.n * a.d

\* a == b on floats: -0 equals +0, NaN equals nothing
FEq(a, b) == ~IsNaN(a) /\ ~IsNaN(b) /\ ~Less(a, b) /\ ~Less(b, a)
LessEq(a, b) == Less(a, b) \/ FEq(a, b)

FAbs(a) == IF SignBit(a) THEN Neg(a) ELSE a

\* linalg's min and max of two scalars
la_min(a, b) == IF Less(a, b) THEN a ELSE b
la_max(a, b) == IF Less(a, b) THEN b ELSE a

\* std::numeric_limits<float>::max() and lowest(), beyond every coordinate
FltMax    == F(4096)
FltLowest == F(-4096)

\* vectors are sequences of floats
VecOf(s) == [i \in DOMAIN s |-> F(s[i])]
VConst(N, a) == [i \in 1..N |-> a]
VAdd(u, v) == [i \in DOMAIN u |-> Add(u[i], v[i])]
VScale(t, v) == [i \in DOMAIN v |-> Mul(t, v[i])]

(***************************************************************************)
(* Ray (ray.h)                                                             *)
(***************************************************************************)
Ray_epsilon == Frac(1, 10000)

\* Ray(): mint(epsilon), maxt(infinity), o and d value-initialised
Ray_default(N) ==
    [o |-> VConst(N, F(0)), d |-> VConst(N, F(0)), mint |-> Ray_epsilon, maxt |-> PInf]

Ray_new(o, d, mint, maxt) == [o |-> o, d |-> d, mint |-> mint, maxt |-> maxt]

\* Ray::operator()(t)
Ray_at(r, t) == VAdd(r.o, VScale(t, r.d))

(***************************************************************************)
(* Box (box.h)                                                             *)
(***************************************************************************)
\* Box(): the empty box
Box_default(N) == [min |-> VConst(N, FltMax), max |-> VConst(N, FltLowest)]

Box_new(mn, mx) == [min |-> mn, max |-> mx]

Box_is_empty(b) == \E i \in DOMAIN b.min : Less(b.max[i], b.min[i])

\* Box::enclose(const Box &)
Box_enclose(b, box2) ==
    [min |-> [i \in DOMAIN b.min |-> la_min(b.min[i], box2.min[i])],
     max |-> [i \in DOMAIN b.max |-> la_max(b.max[i], box2.max[i])]]

\* Box::enclose(const Vec &)
Box_enclose_point(b, p) ==
    [min |-> [i \in DOMAIN b.min |-> la_min(b.min[i], p[i])],
     max |-> [i \in DOMAIN b.max |-> la_max(b.max[i], p[i])]]

\* a mistaken slab test: the slab bounds are not swapped for a negative direction
Box_intersect_axis_noSwap(b, r, st, i) ==
    LET inv_d == Recip(r.d[i])
        t0    == Mul(Sub(b.min[i], r.o[i]), inv_d)
        t1    == Mul(Sub(b.max[i], r.o[i]), inv_d)
        minT  == IF Less(st.minT, t0) THEN t0 ELSE st.minT
        maxT  == IF Less(t1, st.maxT) THEN t1 ELSE st.maxT
    IN  IF st.ret # "go" THEN st
        ELSE [minT |-> minT, maxT |-> maxT,
              ret |-> IF Less(maxT, minT) THEN "false" ELSE "go"]

\* one round of the loop of Box::intersect, axis i; st = [minT, maxT, ret]
\* where ret is "go" while the loop runs and "false" once it has returned
Box_intersect_axis(b, r, st, i) ==
    LET inv_d == Recip(r.d[i])
        a0    == Mul(Sub(b.min[i], r.o[i]), inv_d)
        a1    == Mul(Sub(b.max[i], r.o[i]), inv_d)
        swap  == Less(inv_d, F(0))
        t0    == IF swap THEN a1 ELSE a0
        t1    == IF swap THEN a0 ELSE a1
        minT  == IF Less(st.minT, t0) THEN t0 ELSE st.minT
        maxT  == IF Less(t1, st.maxT) THEN t1 ELSE st.maxT
    IN  IF st.ret # "go" THEN st
        ELSE [minT |-> minT, maxT |-> maxT,
              ret |-> IF Less(maxT, minT) THEN "false" ELSE "go"]

RECURSIVE Box_intersect_loop(_, _, _, _)
Box_intersect_loop(b, r, st, i) ==
    IF i > Len(b.min) THEN st
    ELSE Box_intersect_loop(b, r, Box_intersect_axis(b, r, st, i), i + 1)

\* Box::intersect
Box_intersect(b, r) ==
    Box_intersect_loop(b, r, [minT |-> r.mint, maxT |-> r.maxt, ret |-> "go"], 1).ret = "go"

(***************************************************************************)
(* Mat44f: four columns of four floats, as linalg stores them.             *)
(***************************************************************************)
\* Mat44f from integer columns
MatOf(cols) == [c \in DOMAIN cols |-> VecOf(cols[c])]

la_identity == MatOf(<<<<1, 0, 0, 0>>, <<0, 1, 0, 0>>, <<0, 0, 1, 0>>, <<0, 0, 0, 1>>>>)

RECURSIVE FSum(_, _)
\* f[1] + ... + f[n]
FSum(f, n) == IF n = 0 THEN F(0) ELSE Add(FSum(f, n - 1), f[n])

\* matrix times column vector
mul_vec(a, v) ==
    [r \in DOMAIN v |-> FSum([k \in DOMAIN a |-> Mul(a[k][r], v[k])], Len(a))]

\* mul(a, b): the matrix product a*b
mul(a, b) == [c \in DOMAIN b |-> mul_vec(a, b[c])]

\* the sequence s without its i-th element
Without(s, i) == [j \in 1..(Len(s) - 1) |-> IF j < i THEN s[j] ELSE s[j + 1]]

\* the matrix a without column c and row r
Minor(a, c, r) == [j \in 1..(Len(a) - 1) |-> Without(Without(a, c)[j], r)]

RECURSIVE la_determinant(_)
la_determinant(a) ==
    IF Len(a) = 1 THEN a[1][1]
    ELSE FSum([c \in DOMAIN a |->
                  Mul(IF c % 2 = 1 THEN a[c][1] ELSE Neg(a[c][1]),
                      la_determinant(Minor(a, c, 1)))], Len(a))

\* la::inverse(a): adjugate(a) / determinant(a)
la_inverse(a) ==
    LET det == la_determinant(a)
        cof(r, c) == LET dm == la_determinant(Minor(a, c, r))
                     IN  IF (r + c) % 2 = 0 THEN dm ELSE Neg(dm)
    IN  [c \in DOMAIN a |-> [r \in DOMAIN a |-> Div(cof(c, r), det)]]

(***************************************************************************)
(* Transform (transform.h).  ninv is a ghost field: the number of          *)
(* la::inverse evaluations made by the constructor that built the object.  *)
(***************************************************************************)
Vec3_zero == VConst(3, F(0))

\* Transform(): the identity
Transform_default == [m |-> la_identity, m_inv |-> la_identity, ninv |-> 0]

\* Transform(const Mat44f &m)
Transform_ctor1(m) == [m |-> m, m_inv |-> la_inverse(m), ninv |-> 1]

\* Transform(const Mat44f &trafo, const Mat44f &inv)
Transform_ctor2(trafo, inv) == [m |-> trafo, m_inv |-> inv, ninv |-> 0]

\* Transform::inverse
Transform_inverse(t) == Transform_ctor2(t.m_inv, t.m)

\* a mistaken operator*: the inverses multiplied in the same order as the forward matrices
Transform_mul_sameOrder(a, t) == Transform_ctor2(mul(a.m, t.m), mul(a.m_inv, t.m_inv))

\* Transform::operator*
Transform_mul(a, t) == Transform_ctor2(mul(a.m, t.m), mul(t.m_inv, a.m_inv))

\* Transform::vector: returns Vec3f(0, 0, 0)
Transform_vector(t, v) == Vec3_zero

\* Transform::normal: returns Vec3f(0, 0, 0)
Transform_normal(t, n) == Vec3_zero

\* Transform::point: returns Vec3f(0, 0, 0)
Transform_point(t, p) == Vec3_zero

\* Transform::ray: returns Ray3f()
Transform_ray(t, r) == Ray_default(3)

\* the eight corners of a Box3f, in the order of pts[0..7]
Box_corners(b) ==
    [i \in 1..8 |->
        <<IF i <= 4 THEN b.min[1] ELSE b.max[1],
          IF i \in {1, 2, 5, 6} THEN b.min[2] ELSE b.max[2],
          IF i % 2 = 1 THEN b.min[3] ELSE b.max[3]>>]

RECURSIVE Transform_box_loop(_, _, _, _)
Transform_box_loop(t, pts, new_box, i) ==
    IF i > 8 THEN new_box
    ELSE Transform_box_loop(t, pts, Box_enclose_point(new_box, Transform_point(t, pts[i])), i + 1)

\* Transform::box
Transform_box(t, b) ==
    IF Box_is_empty(b) THEN b
    ELSE LET pts == Box_corners(b)
             p0  == Transform_point(t, pts[1])
         IN  Transform_box_loop(t, pts, Box_new(p0, p0), 2)

\* Transform::translate
Transform_translate(tx, ty, tz) ==
    Transform_ctor1(MatOf(<<<<1, 0, 0, 0>>, <<0, 1, 0, 0>>, <<0, 0, 1, 0>>, <<tx, ty, tz, 1>>>>))

\* Transform::axisOffset
Transform_axisOffset(x, y, z, o) ==
    Transform_ctor1(MatOf(<<x \o <<0>>, y \o <<0>>, z \o <<0>>, o \o <<1>>>>))

(***************************************************************************)
(* The parts of the state a specification does not use stay idle.          *)
(***************************************************************************)
IdleBox ==
    /\ bstep = "idle" /\ box = NoVal /\ bray = NoVal
    /\ boxHit = "none" /\ acc = NoVal /\ accDone = FALSE

IdleXf ==
    /\ xstep = "idle" /\ T1 = NoVal /\ T2 = NoVal /\ xp = NoVal /\ xray = NoVal
    /\ xlhs = NoVal /\ xrhs = NoVal /\ xround = NoVal /\ xrayOut = NoVal
    /\ laInverseCalls = 0

IdleIsect ==
    /\ phase = "idle" /\ grp = NoVal /\ bbh = NoVal /\ ray = NoVal /\ hit0 = NoVal
    /\ resG = NoVal /\ resB = NoVal /\ resL = NoVal

IdleLoad ==
    /\ lstep = "idle" /\ desc = NoVal /\ loader = "none" /\ tab = <<>> /\ top = 0

IdleRace ==
    /\ tstep = "idle" /\ tree = NoVal /\ trays = <<>> /\ been_here = <<>>
    /\ tpc = <<>> /\ tsub = <<>>
    /\ tstat = <<>> /\ sharedWrites = 0

IdleCall ==
    /\ cstep = "idle" /\ cop = "none" /\ cself = NoVal /\ carg = NoVal
    /\ chit = NoVal /\ cout = NoVal

IdleKD ==
    /\ kstep = "idle" /\ knodes = <<>> /\ kbounds = NoVal /\ ksearch = NoVal
    /\ klo = 0 /\ khi = 0 /\ ktodo = <<>>

IdleBar ==
    /\ bpc = <<>> /\ m_mutex = 0 /\ m_num_to_block = 0 /\ m_num_to_exit = 0
    /\ bret = <<>> /\ bdeleted = FALSE /\ bstale = FALSE

IdleArr ==
    /\ astep = "idle" /\ arr = NoVal /\ ax = 0 /\ ay = 0 /\ aout = NoVal

IdleHeap == gstep = "idle" /\ gheap = <<>>

IdleExt == IdleCall /\ IdleKD /\ IdleBar /\ IdleArr /\ IdleHeap

(***************************************************************************)
(* Box experiments: Box2f boxes and Ray2f rays.                            *)
(***************************************************************************)
Coords  == 0..MaxCoord
Origins == (0 - 1)..(MaxCoord + 1)
DirVals == {F(0 - 2), F(0 - 1), NegZero, F(0), F(1), F(2)}

\* the non-empty boxes with corners on the grid, and the default (empty) box
GridBoxes ==
    {Box_new(VecOf(<<x0, y0>>), VecOf(<<x1, y1>>)) :
        <<x0, x1, y0, y1>> \in {q \in Coords \X Coords \X Coords \X Coords :
                                   q[1] <= q[2] /\ q[3] <= q[4]}}
    \cup {Box_default(2)}

\* the [mint, maxt] of the rays
Intervals == {<<F(0 - 1), PInf>>, <<F(0), PInf>>, <<F(0), F(2)>>, <<F(1), F(2)>>}

GridRays ==
    {Ray_new(VecOf(<<ox, oy>>), <<dx, dy>>, iv[1], iv[2]) :
        ox \in Origins, oy \in Origins, dx \in DirVals, dy \in DirVals, iv \in Intervals}

\* corner values of arbitrary boxes, empty or not, finite or not
CornerVals == {NInf, FltLowest, F(0), F(1), FltMax, PInf}

AnyBoxes ==
    {Box_new(<<x0, y0>>, <<x1, y1>>) :
        x0 \in CornerVals, y0 \in CornerVals, x1 \in CornerVals, y1 \in CornerVals}

\* rays that start at the far corner of the float range
FarRays ==
    {Ray_new(VConst(2, FltLowest), <<dx, dy>>, iv[1], iv[2]) :
        dx \in {F(0), F(1)}, dy \in {F(0), F(1)}, iv \in Intervals}

InitBox ==
    /\ \/ /\ bstep = "isect"
          /\ box \in GridBoxes
          /\ bray \in GridRays \cup FarRays
       \/ /\ bstep = "enclose"
          /\ box \in AnyBoxes \cup GridBoxes
          /\ bray = Ray_default(2)
    /\ boxHit = "none"
    /\ acc = Box_default(2)
    /\ accDone = FALSE
    /\ IdleXf /\ IdleIsect /\ IdleLoad /\ IdleRace
    /\ IdleExt

\* bool hit = box.intersect(ray)
BoxIntersect ==
    /\ bstep = "isect"
    /\ boxHit = "none"
    /\ boxHit' = IF Box_intersect(box, bray) THEN "true" ELSE "false"
    /\ UNCHANGED <<bstep, box, bray, acc, accDone>>
    /\ UNCHANGED <<xfVars, isectVars, loadVars, raceVars>>
    /\ UNCHANGED extVars

\* Box empty; empty.enclose(box)
BoxEnclose ==
    /\ bstep = "enclose"
    /\ ~accDone
    /\ acc' = Box_enclose(acc, box)
    /\ accDone' = TRUE
    /\ UNCHANGED <<bstep, box, bray, boxHit>>
    /\ UNCHANGED <<xfVars, isectVars, loadVars, raceVars>>
    /\ UNCHANGED extVars

NextBox == BoxIntersect \/ BoxEnclose

SpecBox == InitBox /\ [][NextBox]_vars

\* ---- geometry used to state the claims about Box::intersect ----
\* ray parameters at which a ray of GridRays can enter or leave a box of
\* GridBoxes, and the midpoints between two of them: the quarters
TSamples == {Frac(k, 4) : k \in 0..(4 * (MaxCoord + 2))}

StrictlyInside(b, p) ==
    \A i \in DOMAIN p : Less(b.min[i], p[i]) /\ Less(p[i], b.max[i])

Inside(b, p) ==
    \A i \in DOMAIN p : LessEq(b.min[i], p[i]) /\ LessEq(p[i], b.max[i])

\* the direction with its negative zeros read as zeros
PlainDir(r) == [i \in DOMAIN r.d |-> IF r.d[i].k = "nz" THEN F(0) ELSE r.d[i]]

PointAt(r, t) == VAdd(r.o, VScale(t, PlainDir(r)))

\* the ray points from its origin, outside b, towards a point strictly inside b
AimedAtInterior(b, r) ==
    /\ ~Inside(b, r.o)
    /\ \E t \in TSamples : Less(F(0), t) /\ StrictlyInside(b, PointAt(r, t))

\* [mint, maxt] contains every parameter at which the ray is inside b
IntervalCovers(b, r) ==
    \A t \in TSamples : Inside(b, PointAt(r, t)) => LessEq(r.mint, t) /\ LessEq(t, r.maxt)

Dot2(u, v) == Add(Mul(u[1], v[1]), Mul(u[2], v[2]))

\* b lies entirely behind the origin of the ray
AimedAway(b, r) ==
    /\ ~Box_is_empty(b)
    /\ \A cx \in {b.min[1], b.max[1]}, cy \in {b.min[2], b.max[2]} :
          Less(Dot2(<<Sub(cx, r.o[1]), Sub(cy, r.o[2])>>, PlainDir(r)), F(0))

(***************************************************************************)
(* Claims about Box                                                        *)
(***************************************************************************)
\* C6: a ray from outside a non-empty box aimed at a point strictly inside it,
\* whose [mint, maxt] contains the parameters at which it is inside the box,
\* is reported as a hit by Box::intersect; a ray with mint >= 0 that has the
\* box entirely behind its origin is reported as a miss.
C6_SlabTestSound ==
    (bstep = "isect" /\ boxHit # "none") =>
        /\ (boxHit = "false" =>
               ~(~Box_is_empty(box) /\ AimedAtInterior(box, bray) /\ IntervalCovers(box, bray)))
        /\ (boxHit = "true" =>
               ~(AimedAway(box, bray) /\ LessEq(F(0), bray.mint)))

\* a ray with a negative direction component aimed at the interior was tested and hit
C6_Witness ==
    /\ bstep = "isect" /\ boxHit = "true"
    /\ ~Box_is_empty(box) /\ AimedAtInterior(box, bray) /\ IntervalCovers(box, bray)
    /\ Less(bray.d[1], F(0)) /\ bray.d[2].k = "nz"

\* C7: enclosing any box B, empty or not, into a default-constructed box
\* yields a box with B's min and max on every axis.
C7_EncloseIntoEmptyIsIdentity ==
    accDone => (acc.min = box.min /\ acc.max = box.max)

(***************************************************************************)
(* Transform experiments                                                   *)
(***************************************************************************)
\* a rotation by 90 degrees about z followed by an offset
XfRotate == Transform_axisOffset(<<0, 1, 0>>, <<0 - 1, 0, 0>>, <<0, 0, 1>>, <<1, 0, 0>>)

\* a uniform scale by 2
XfScale == Transform_ctor1(MatOf(<<<<2, 0, 0, 0>>, <<0, 2, 0, 0>>, <<0, 0, 2, 0>>, <<0, 0, 0, 1>>>>))

\* a shear
XfShear == Transform_ctor1(MatOf(<<<<1, 0, 0, 0>>, <<1, 1, 0, 0>>, <<0, 0, 1, 0>>, <<0, 0, 0, 1>>>>))

\* a singular matrix: its la::inverse divides by a zero determinant
XfSingular == Transform_ctor1(MatOf(<<<<1, 0, 0, 0>>, <<0, 0, 0, 0>>, <<0, 0, 1, 0>>, <<0, 0, 0, 1>>>>))

\* a transform built from a matrix and an unrelated "inverse"
XfUnrelated == Transform_ctor2(XfShear.m, XfRotate.m)

XfInputs ==
    {Transform_default, Transform_translate(1, 2, 3), XfRotate, XfScale, XfShear,
     XfSingular, XfUnrelated}

XfPoints == {VecOf(<<0, 0, 0>>), VecOf(<<1, 0, 0>>), VecOf(<<1, 2, 3>>)}

XfRays ==
    {Ray_new(VecOf(o), VecOf(<<0, 0, 0 - 1>>), mint, maxt) :
        o \in {<<0, 0, 0>>, <<1, 2, 3>>}, mint \in {Ray_epsilon, F(1)}, maxt \in {F(5), PInf}}

\* m_inv is the inverse of m
MatEq(a, b) == \A c \in DOMAIN a : \A r \in DOMAIN a[c] : FEq(a[c][r], b[c][r])

Invertible(t) == MatEq(mul(t.m, t.m_inv), la_identity) /\ MatEq(mul(t.m_inv, t.m), la_identity)

InitXf ==
    /\ xstep = "start"
    /\ T1 \in XfInputs
    /\ T2 \in XfInputs
    /\ xp \in XfPoints
    /\ xray \in XfRays
    /\ xlhs = NoVal /\ xrhs = NoVal /\ xround = NoVal /\ xrayOut = NoVal
    /\ laInverseCalls = 0
    /\ IdleBox /\ IdleIsect /\ IdleLoad /\ IdleRace
    /\ IdleExt

\* (T1 * T2).inverse()
XfLhs ==
    /\ xstep = "start"
    /\ LET prod == Transform_mul(T1, T2)
           inv  == Transform_inverse(prod)
       IN  /\ xlhs' = inv
           /\ laInverseCalls' = laInverseCalls + prod.ninv + inv.ninv
    /\ xstep' = "lhs"
    /\ UNCHANGED <<T1, T2, xp, xray, xrhs, xround, xrayOut>>
    /\ UNCHANGED <<boxVars, isectVars, loadVars, raceVars>>
    /\ UNCHANGED extVars

\* T2.inverse() * T1.inverse()
XfRhs ==
    /\ xstep = "lhs"
    /\ LET i2   == Transform_inverse(T2)
           i1   == Transform_inverse(T1)
           prod == Transform_mul(i2, i1)
       IN  /\ xrhs' = prod
           /\ laInverseCalls' = laInverseCalls + i2.ninv + i1.ninv + prod.ninv
    /\ xstep' = "done"
    /\ UNCHANGED <<T1, T2, xp, xray, xlhs, xround, xrayOut>>
    /\ UNCHANGED <<boxVars, isectVars, loadVars, raceVars>>
    /\ UNCHANGED extVars

\* T1.inverse().point(T1.point(xp))
XfRoundTrip ==
    /\ xstep # "idle"
    /\ xround = NoVal
    /\ xround' = Transform_point(Transform_inverse(T1), Transform_point(T1, xp))
    /\ UNCHANGED <<xstep, T1, T2, xp, xray, xlhs, xrhs, xrayOut, laInverseCalls>>
    /\ UNCHANGED <<boxVars, isectVars, loadVars, raceVars>>
    /\ UNCHANGED extVars

\* T1.ray(xray)
XfRay ==
    /\ xstep # "idle"
    /\ xrayOut = NoVal
    /\ xrayOut' = Transform_ray(T1, xray)
    /\ UNCHANGED <<xstep, T1, T2, xp, xray, xlhs, xrhs, xround, laInverseCalls>>
    /\ UNCHANGED <<boxVars, isectVars, loadVars, raceVars>>
    /\ UNCHANGED extVars

NextXf == XfLhs \/ XfRhs \/ XfRoundTrip \/ XfRay

SpecXf == InitXf /\ [][NextXf]_vars

(***************************************************************************)
(* Claims about Transform                                                  *)
(***************************************************************************)
\* C8: (T1*T2).inverse() has the same forward matrix and the same stored
\* inverse matrix as T2.inverse()*T1.inverse(), and neither operator* nor
\* inverse() evaluates a matrix inversion.
C8_InverseOfProduct ==
    xstep = "done" =>
        /\ xlhs.m = xrhs.m
        /\ xlhs.m_inv = xrhs.m_inv
        /\ laInverseCalls = 0

\* both sides were computed for two transforms that do not commute
C8_Witness ==
    /\ xstep = "done"
    /\ mul(T1.m, T2.m) # mul(T2.m, T1.m)
    /\ mul(T1.m_inv, T2.m_inv) # mul(T2.m_inv, T1.m_inv)
    /\ xlhs.m = mul(T2.m_inv, T1.m_inv)

\* two points are within 1e-5 of each other on every axis
VNear(u, v) ==
    \A i \in DOMAIN u :
        /\ Less(Sub(u[i], v[i]), Frac(1, 100000))
        /\ Less(Sub(v[i], u[i]), Frac(1, 100000))

\* C9: for every invertible transform T and point p, T.inverse().point(T.point(p))
\* equals p within 1e-5 on every axis.
C9_PointRoundTrip ==
    (xround # NoVal /\ Invertible(T1)) => VNear(xround, xp)

\* C10: T.ray(r) keeps r.mint and r.maxt, has origin T.point(r.o) and
\* direction T.vector(r.d).
C10_RayKeepsInterval ==
    xrayOut # NoVal =>
        /\ xrayOut.mint = xray.mint
        /\ xrayOut.maxt = xray.maxt
        /\ xrayOut.o = Transform_point(T1, xray.o)
        /\ xrayOut.d = Transform_vector(T1, xray.d)

(***************************************************************************)
(* Surfaces (surface.h, sphere.cpp, quad.cpp, triangle.cpp,                *)
(* surface_group.cpp, bbh.cpp).  A surface is a record whose type field    *)
(* names its class; Null is the null pointer.                              *)
(***************************************************************************)
Null == [type |-> "null"]

\* the largest k with k*k <= x
ISqrt(x) == CHOOSE k \in 0..x : k * k <= x /\ x < (k + 1) * (k + 1)

\* std::sqrt, rounded down to three decimals where it is irrational
FSqrt(a) ==
    CASE IsNaN(a) -> NaN
      [] a.k = "pinf" -> PInf
      [] a.k = "nz" -> NegZero
      [] a.k = "ninf" -> NaN
      [] OTHER -> IF a.n < 0 THEN NaN
                  ELSE Frac(ISqrt(a.n * a.d * 1000000), a.d * 1000)

\* linalg's length and normalize
la_length(v) == FSqrt(FSum([i \in DOMAIN v |-> Mul(v[i], v[i])], Len(v)))
la_normalize(v) == LET len == la_length(v) IN [i \in DOMAIN v |-> Div(v[i], len)]

\* HitInfo
HitInfo_new(t, p, gn, sn, uv, mat) ==
    [t |-> t, p |-> p, gn |-> gn, sn |-> sn, uv |-> uv, mat |-> mat]

Sphere_new(radius, material, xform) ==
    [type |-> "sphere", m_xform |-> xform, m_material |-> material, m_radius |-> radius]

\* Quad::Quad: m_size is halved at construction
Quad_new(size, material, xform) ==
    [type |-> "quad", m_xform |-> xform, m_material |-> material,
     m_size |-> [i \in DOMAIN size |-> Div(size[i], F(2))]]

\* a Triangle with its three world-space vertices
Triangle_new(vs, material) == [type |-> "triangle", vs |-> vs, m_material |-> material]

\* SurfaceGroup::SurfaceGroup without children
SurfaceGroup_new(xform) ==
    [type |-> "group", m_xform |-> xform, m_surfaces |-> <<>>, m_bounds |-> Box_default(3)]

\* BBH::BBH: a SurfaceGroup with a null root
BBH_new(xform) ==
    [type |-> "bbh", m_xform |-> xform, m_surfaces |-> <<>>, m_bounds |-> Box_default(3),
     root |-> Null]

\* BBHNode::BBHNode: the constructor body is empty, the members keep their defaults
BBHNode_new(surfaces) ==
    [type |-> "bbhnode", bbox |-> Box_default(3), left_child |-> Null, right_child |-> Null]

\* Sphere::local_bounds
Sphere_local_bounds(s) == Box_new(VConst(3, Neg(s.m_radius)), VConst(3, s.m_radius))

\* Quad::local_bounds
Quad_local_bounds(q) ==
    LET c == <<q.m_size[1], q.m_size[2], F(0)>>
    IN  Box_new([i \in 1..3 |-> Sub(Neg(c[i]), Ray_epsilon)],
                [i \in 1..3 |-> Add(c[i], Ray_epsilon)])

RECURSIVE Pow2(_)
Pow2(n) == IF n = 0 THEN 1 ELSE 2 * Pow2(n - 1)

RECURSIVE FloorLog2(_)
FloorLog2(i) == IF i < 2 THEN 0 ELSE 1 + FloorLog2(i \div 2)

\* the float nearest to the exact result of a float operation (ties to even).
\* A float has a 24 bit significand: between 2^k and 2^(k+1) the floats are
\* the multiples of 2^(k-23).  Below 1024 the floats are closer together than
\* any two values the model tells apart, and the result is kept exact.
Float_round(a) ==
    IF a.k # "fin" THEN a
    ELSE LET n == IAbs(a.n)
             i == n \div a.d
             r == n % a.d
         IN  IF i < 1024 THEN a
             ELSE LET s   == Pow2(23 - FloorLog2(i))
                      q   == (r * s) \div a.d
                      rem == (r * s) % a.d
                      up  == 2 * rem > a.d \/ (2 * rem = a.d /\ (i * s + q) % 2 = 1)
                      m   == i * s + q + (IF up THEN 1 ELSE 0)
                  IN  Frac(IF a.n < 0 THEN 0 - m ELSE m, s)

\* Triangle::bounds; result.min[i] -= 5e-5f and result.max[i] += 5e-5f are
\* float operations
Triangle_bounds(tri) ==
    LET result == Box_enclose_point(Box_enclose_point(Box_enclose_point(
                      Box_default(3), tri.vs[1]), tri.vs[2]), tri.vs[3])
        diag(i) == Float_round(Sub(result.max[i], result.min[i]))
        thin(i) == Less(diag(i), Frac(1, 10000))
    IN  [min |-> [i \in 1..3 |-> IF thin(i)
                                 THEN Float_round(Sub(result.min[i], Frac(5, 100000)))
                                 ELSE result.min[i]],
         max |-> [i \in 1..3 |-> IF thin(i)
                                 THEN Float_round(Add(result.max[i], Frac(5, 100000)))
                                 ELSE result.max[i]]]

RECURSIVE Surface_bounds(_)
RECURSIVE BBHLeaf_bounds_loop(_, _, _)
\* the loop of BBHLeaf::bounds
BBHLeaf_bounds_loop(surfaces, b, i) ==
    IF i > Len(surfaces) THEN b
    ELSE BBHLeaf_bounds_loop(surfaces, Box_enclose(b, Surface_bounds(surfaces[i])), i + 1)

\* Surface::bounds, by dynamic type
Surface_bounds(s) ==
    CASE s.type = "sphere"   -> Transform_box(s.m_xform, Sphere_local_bounds(s))
      [] s.type = "quad"     -> Transform_box(s.m_xform, Quad_local_bounds(s))
      [] s.type = "triangle" -> Triangle_bounds(s)
      [] s.type \in {"group", "bbh"} -> Transform_box(s.m_xform, s.m_bounds)
      [] s.type = "bbhnode"  -> s.bbox
      [] s.type = "bbhleaf"  -> BBHLeaf_bounds_loop(s.surfaces, Box_default(3), 1)
      [] s.type = "mesh"     -> s.bbox

\* SurfaceGroup::add_child
SurfaceGroup_add_child(g, surface) ==
    [g EXCEPT !.m_surfaces = Append(@, surface),
              !.m_bounds = Box_enclose(@, Surface_bounds(surface))]

\* a mistaken build: a node is made even for an empty child list
BBH_build_alwaysNode(b) == [b EXCEPT !.root = BBHNode_new(b.m_surfaces)]

\* BBH::build
BBH_build(b) ==
    IF Len(b.m_surfaces) # 0
    THEN [b EXCEPT !.root = BBHNode_new(b.m_surfaces)]
    ELSE [b EXCEPT !.root = Null]

\* the result of an intersect call: the returned bool and the hit record after it
Res(ret, hit) == [ret |-> ret, hit |-> hit]

\* Sphere::intersect: returns false before any computation
Sphere_intersect(s, r, hit) == Res(FALSE, hit)

\* single_triangle_intersect, called by Triangle::intersect: returns false
Triangle_intersect(tri, r, hit) == Res(FALSE, hit)

\* a mistaken Quad::intersect: the test for a ray parallel to the plane is missing
Quad_intersect_noParallelTest(q, r, hit) ==
    LET tray == Transform_ray(Transform_inverse(q.m_xform), r)
        t    == Div(Neg(tray.o[3]), tray.d[3])
        p    == Ray_at(tray, t)
        n    == la_normalize(Transform_normal(q.m_xform, VecOf(<<0, 0, 1>>)))
    IN  IF Less(q.m_size[1], FAbs(p[1])) \/ Less(q.m_size[2], FAbs(p[2]))
        THEN Res(FALSE, hit)
        ELSE IF Less(t, tray.mint) \/ Less(tray.maxt, t) THEN Res(FALSE, hit)
        ELSE Res(TRUE, HitInfo_new(t, Transform_point(q.m_xform, <<p[1], p[2], F(0)>>),
                                   n, n, VecOf(<<0, 0>>), q.m_material))

\* Quad::intersect
Quad_intersect(q, r, hit) ==
    LET tray == Transform_ray(Transform_inverse(q.m_xform), r)
        t    == Div(Neg(tray.o[3]), tray.d[3])
        p    == Ray_at(tray, t)
        n    == la_normalize(Transform_normal(q.m_xform, VecOf(<<0, 0, 1>>)))
    IN  IF FEq(tray.d[3], F(0)) THEN Res(FALSE, hit)
        ELSE IF Less(q.m_size[1], FAbs(p[1])) \/ Less(q.m_size[2], FAbs(p[2]))
             THEN Res(FALSE, hit)
        ELSE IF Less(t, tray.mint) \/ Less(tray.maxt, t) THEN Res(FALSE, hit)
        ELSE Res(TRUE, HitInfo_new(t, Transform_point(q.m_xform, <<p[1], p[2], F(0)>>),
                                   n, n, VecOf(<<0, 0>>), q.m_material))

\* BBHNode::intersect: returns false
BBHNode_intersect(n, r, hit) == Res(FALSE, hit)

RECURSIVE Surface_intersect(_, _, _)
RECURSIVE Children_intersect(_, _, _, _, _)
\* the loop over the children of SurfaceGroup::intersect and BBHLeaf::intersect;
\* st = [ray, hit, hit_anything]
Children_intersect(surfaces, r, hit, hit_anything, i) ==
    IF i > Len(surfaces) THEN [ray |-> r, hit |-> hit, hit_anything |-> hit_anything]
    ELSE LET c == Surface_intersect(surfaces[i], r, hit)
         IN  IF c.ret
             THEN Children_intersect(surfaces, [r EXCEPT !.maxt = c.hit.t], c.hit, TRUE, i + 1)
             ELSE Children_intersect(surfaces, r, c.hit, hit_anything, i + 1)

\* the hit record transformed back by m_xform, as SurfaceGroup::intersect and
\* BBH::intersect do before they return
Hit_to_world(xform, hit) ==
    [hit EXCEPT !.p  = Transform_point(xform, hit.p),
                !.gn = la_normalize(Transform_normal(xform, hit.gn)),
                !.sn = la_normalize(Transform_normal(xform, hit.sn))]

\* SurfaceGroup::intersect
SurfaceGroup_intersect(g, r, hit) ==
    LET lray == Transform_ray(Transform_inverse(g.m_xform), r)
        st   == Children_intersect(g.m_surfaces, lray, hit, FALSE, 1)
    IN  Res(st.hit_anything, Hit_to_world(g.m_xform, st.hit))

\* BBHLeaf::intersect
BBHLeaf_intersect(l, r, hit) ==
    LET st == Children_intersect(l.surfaces, r, hit, FALSE, 1)
    IN  Res(st.hit_anything, st.hit)

\* BBH::intersect
BBH_intersect(b, r, hit) ==
    IF b.root = Null THEN Res(FALSE, hit)
    ELSE LET lray == Transform_ray(Transform_inverse(b.m_xform), r)
             c    == Surface_intersect(b.root, lray, hit)
         IN  Res(c.ret, Hit_to_world(b.m_xform, c.hit))

\* Surface::intersect, by dynamic type
Surface_intersect(s, r, hit) ==
    CASE s.type = "sphere"   -> Sphere_intersect(s, r, hit)
      [] s.type = "quad"     -> Quad_intersect(s, r, hit)
      [] s.type = "triangle" -> Triangle_intersect(s, r, hit)
      [] s.type = "group"    -> SurfaceGroup_intersect(s, r, hit)
      [] s.type = "bbh"      -> BBH_intersect(s, r, hit)
      [] s.type = "bbhnode"  -> BBHNode_intersect(s, r, hit)
      [] s.type = "bbhleaf"  -> BBHLeaf_intersect(s, r, hit)

(***************************************************************************)
(* A SurfaceGroup and a BBH that receive the same children and the same    *)
(* transform, and are sent the same ray with the same hit record.          *)
(***************************************************************************)
ChildInputs ==
    {Sphere_new(F(1), 1, Transform_default),
     Quad_new(<<F(2), F(2)>>, 2, Transform_default),
     Quad_new(<<F(2), F(2)>>, 2, Transform_translate(0, 0, 1)),
     Triangle_new(<<VecOf(<<0, 0, 0>>), VecOf(<<1, 0, 0>>), VecOf(<<0, 1, 0>>)>>, 1),
     SurfaceGroup_add_child(SurfaceGroup_new(Transform_default),
                            Sphere_new(F(2), 1, Transform_default))}

IsectRays ==
    {Ray_new(VecOf(<<0, 0, 5>>), VecOf(<<0, 0, 0 - 1>>), Ray_epsilon, PInf),
     Ray_new(VecOf(<<0, 0, 5>>), VecOf(<<0, 0, 1>>), Ray_epsilon, PInf),
     Ray_new(VecOf(<<5, 5, 5>>), VecOf(<<0, 1, 0>>), F(1), F(2))}

\* HitInfo() leaves its members uninitialised: the record holds any values
HitInputs ==
    {HitInfo_new(F(0), Vec3_zero, Vec3_zero, Vec3_zero, VecOf(<<0, 0>>), 0),
     HitInfo_new(F(7), VecOf(<<1, 2, 3>>), VecOf(<<0, 0, 2>>), VecOf(<<0, 1, 0>>),
                 VecOf(<<0, 0>>), 0),
     HitInfo_new(F(0), Vec3_zero, VConst(3, NaN), VConst(3, NaN), VecOf(<<0, 0>>), 0)}

Init ==
    /\ phase = "assemble"
    /\ \E x \in {Transform_default, Transform_translate(1, 2, 3)} :
          /\ grp = SurfaceGroup_new(x)
          /\ bbh = BBH_new(x)
    /\ ray \in IsectRays
    /\ hit0 \in HitInputs
    /\ resG = NoVal /\ resB = NoVal /\ resL = NoVal
    /\ IdleBox /\ IdleXf /\ IdleLoad /\ IdleRace
    /\ IdleExt

\* group->add_child(s) and bbh->add_child(s)
AddChild ==
    /\ phase = "assemble"
    /\ Len(grp.m_surfaces) < MaxChildren
    /\ \E c \in ChildInputs :
          /\ grp' = SurfaceGroup_add_child(grp, c)
          /\ bbh' = SurfaceGroup_add_child(bbh, c)
    /\ UNCHANGED <<phase, ray, hit0, resG, resB, resL>>
    /\ UNCHANGED <<boxVars, xfVars, loadVars, raceVars>>
    /\ UNCHANGED extVars

\* group->build() (Surface::build does nothing) and bbh->build()
Build ==
    /\ phase = "assemble"
    /\ bbh' = BBH_build(bbh)
    /\ phase' = "built"
    /\ UNCHANGED <<grp, ray, hit0, resG, resB, resL>>
    /\ UNCHANGED <<boxVars, xfVars, loadVars, raceVars>>
    /\ UNCHANGED extVars

\* HitInfo hit; group->intersect(ray, hit)
IntersectGroup ==
    /\ phase = "built"
    /\ resG = NoVal
    /\ resG' = SurfaceGroup_intersect(grp, ray, hit0)
    /\ UNCHANGED <<phase, grp, bbh, ray, hit0, resB, resL>>
    /\ UNCHANGED <<boxVars, xfVars, loadVars, raceVars>>
    /\ UNCHANGED extVars

\* HitInfo hit; bbh->intersect(ray, hit)
IntersectBBH ==
    /\ phase = "built"
    /\ resB = NoVal
    /\ resB' = BBH_intersect(bbh, ray, hit0)
    /\ UNCHANGED <<phase, grp, bbh, ray, hit0, resG, resL>>
    /\ UNCHANGED <<boxVars, xfVars, loadVars, raceVars>>
    /\ UNCHANGED extVars

\* HitInfo hit; child->intersect(ray, hit) on one of the children
IntersectChild ==
    /\ phase = "built"
    /\ resL = NoVal
    /\ \E i \in 1..Len(grp.m_surfaces) :
          resL' = Surface_intersect(grp.m_surfaces[i], ray, hit0)
    /\ UNCHANGED <<phase, grp, bbh, ray, hit0, resG, resB>>
    /\ UNCHANGED <<boxVars, xfVars, loadVars, raceVars>>
    /\ UNCHANGED extVars

Next == AddChild \/ Build \/ IntersectGroup \/ IntersectBBH \/ IntersectChild

Spec == Init /\ [][Next]_vars

(***************************************************************************)
(* Claims about SurfaceGroup::intersect and BBH::intersect                 *)
(***************************************************************************)
\* C1: over the same children and the same transform, BBH::intersect returns
\* the same boolean and the same hit record (t, p, gn, sn) as
\* SurfaceGroup::intersect, for every ray.
C1_BBHEqualsLinearScan ==
    (phase = "built" /\ resG # NoVal /\ resB # NoVal) =>
        /\ resB.ret = resG.ret
        /\ resB.hit.t = resG.hit.t
        /\ resB.hit.p = resG.hit.p
        /\ resB.hit.gn = resG.hit.gn
        /\ resB.hit.sn = resG.hit.sn

\* C2: an intersect call that returns false leaves every field of the hit
\* record as it was before the call.
C2_MissLeavesHitUntouched ==
    \A res \in {resG, resB, resL} :
        (res # NoVal /\ ~res.ret) => res.hit = hit0

\* C5: after build() on a BBH with no children the root is null, and
\* BBH::intersect returns false.
C5_EmptyBBH ==
    (phase = "built" /\ Len(bbh.m_surfaces) = 0) =>
        /\ bbh.root = Null
        /\ (resB # NoVal => ~resB.ret)

\* an empty BBH was built and queried
C5_Witness ==
    /\ phase = "built" /\ Len(bbh.m_surfaces) = 0 /\ bbh.root = Null
    /\ resB # NoVal /\ ~resB.ret

(***************************************************************************)
(* Loading a scene or an intersection test from json (scene.cpp,           *)
(* surface_group.cpp, mesh.cpp, test_intersection.cpp).  The table tab     *)
(* holds one entry per surface created; log is the sequence of add_child,  *)
(* build and intersect calls the surface has received.                     *)
(***************************************************************************)
\* json descriptions: [type, children]
J(type, children) == [type |-> type, children |-> children]

SeqsUpTo(S, n) == UNION {[1..k -> S] : k \in 0..n}

\* a mesh description stands for an OBJ file with two faces
LeafDescs == {J("sphere", <<>>), J("quad", <<>>), J("mesh", <<>>)}
MeshFaces == 2

GroupTypes == {"group", "bbh"}

\* groups of at most one leaf, and groups of leaves and such groups
SmallGroupDescs == {J(ty, ch) : ty \in GroupTypes, ch \in SeqsUpTo(LeafDescs, 1)}
ChildDescs == LeafDescs \cup SmallGroupDescs
GroupDescs == {J(ty, ch) : ty \in GroupTypes, ch \in SeqsUpTo(ChildDescs, MaxKids)}

\* scene files: an optional accelerator and the list of top-level surfaces
SceneDescs ==
    {[accelerator |-> a, surfaces |-> ch] :
        a \in {J("none", <<>>), J("group", <<>>), J("bbh", <<>>)},
        ch \in SeqsUpTo(ChildDescs, MaxKids)}

Tab_new(t, type) == Append(t, [type |-> type, kids |-> <<>>, root |-> "null", log |-> <<>>])
Tab_log(t, id, ev) == [t EXCEPT ![id].log = Append(@, ev)]

\* SurfaceGroup::add_child on the surface parent
Tab_add_child(t, parent, child) ==
    [Tab_log(t, parent, "add_child") EXCEPT ![parent].kids = Append(@, child)]

RECURSIVE Mesh_add_to_parent(_, _, _)
\* the loop of Mesh::add_to_parent: one new Triangle per face added to the parent
Mesh_add_to_parent(t, parent, index) ==
    IF index >= MeshFaces THEN t
    ELSE LET t1 == Tab_new(t, "triangle")
         IN  Mesh_add_to_parent(Tab_add_child(t1, parent, Len(t1)), parent, index + 1)

\* Surface::add_to_parent, overridden by Mesh
Surface_add_to_parent(t, parent, self) ==
    IF t[self].type = "mesh" THEN Mesh_add_to_parent(t, parent, 0)
    ELSE Tab_add_child(t, parent, self)

\* Surface::build, overridden by BBH
Surface_build(t, id) ==
    LET t1 == Tab_log(t, id, "build")
    IN  IF t[id].type = "bbh"
        THEN [t1 EXCEPT ![id].root = IF Len(t[id].kids) # 0 THEN "node" ELSE "null"]
        ELSE t1

RECURSIVE Factory_create(_, _)
RECURSIVE SurfaceGroup_ctor_loop(_, _, _, _)
\* the loop of SurfaceGroup::SurfaceGroup over j["children"]
SurfaceGroup_ctor_loop(t, this, children, i) ==
    IF i > Len(children) THEN t
    ELSE LET c  == Factory_create(t, children[i])
             t1 == Surface_add_to_parent(c.tab, this, c.id)
             t2 == Surface_build(t1, c.id)
         IN  SurfaceGroup_ctor_loop(t2, this, children, i + 1)

\* DartsFactory<Surface>::create(j): returns the table and the id of the new surface
Factory_create(t, j) ==
    LET t1 == Tab_new(t, j.type)
        id == Len(t1)
    IN  IF j.type \in GroupTypes
        THEN [tab |-> SurfaceGroup_ctor_loop(t1, id, j.children, 1), id |-> id]
        ELSE [tab |-> t1, id |-> id]

RECURSIVE Scene_parse_loop(_, _, _, _)
\* the loop of Scene::parse over j["surfaces"]; Scene::add_child forwards to m_surfaces
Scene_parse_loop(t, m_surfaces, surfaces, i) ==
    IF i > Len(surfaces) THEN t
    ELSE LET c  == Factory_create(t, surfaces[i])
             t1 == Surface_add_to_parent(c.tab, m_surfaces, c.id)
             t2 == Surface_build(t1, c.id)
         IN  Scene_parse_loop(t2, m_surfaces, surfaces, i + 1)

\* Scene::parse
Scene_parse(t, j) ==
    LET acc0 == IF j.accelerator.type = "none" THEN J("group", <<>>) ELSE j.accelerator
        c    == Factory_create(t, acc0)
        t1   == Scene_parse_loop(c.tab, c.id, j.surfaces, 1)
    IN  [tab |-> Surface_build(t1, c.id), id |-> c.id]

\* IntersectionTest::IntersectionTest, the "surface" branch
IntersectionTest_surface(t, j) == Factory_create(t, j)

\* IntersectionTest::IntersectionTest, the "surfaces" branch
IntersectionTest_surfaces(t, j) ==
    LET c == Factory_create(t, j) IN [tab |-> Surface_build(c.tab, c.id), id |-> c.id]

RECURSIVE Tab_intersect(_, _)
RECURSIVE Tab_intersect_loop(_, _, _)
\* the surfaces an intersect call on id reaches
Tab_intersect_loop(t, kids, i) ==
    IF i > Len(kids) THEN t
    ELSE Tab_intersect_loop(Tab_intersect(t, kids[i]), kids, i + 1)

\* SurfaceGroup::intersect visits every child; BBH::intersect visits its root
\* node only, and BBHNode::intersect visits nothing
Tab_intersect(t, id) ==
    LET t1 == Tab_log(t, id, "intersect")
    IN  IF t[id].type = "group" THEN Tab_intersect_loop(t1, t[id].kids, 1) ELSE t1

InitLoad ==
    /\ lstep = "json"
    /\ \/ loader = "scene" /\ desc \in SceneDescs
       \/ loader \in {"test_surface", "test_surfaces"} /\ desc \in GroupDescs \cup LeafDescs
    /\ tab = <<>>
    /\ top = 0
    /\ IdleBox /\ IdleXf /\ IdleIsect /\ IdleRace
    /\ IdleExt

\* Scene::Scene(j)
LoadScene ==
    /\ lstep = "json" /\ loader = "scene"
    /\ LET c == Scene_parse(tab, desc) IN tab' = c.tab /\ top' = c.id
    /\ lstep' = "loaded"
    /\ UNCHANGED <<desc, loader>>
    /\ UNCHANGED <<boxVars, xfVars, isectVars, raceVars>>
    /\ UNCHANGED extVars

\* IntersectionTest(j) with j["surface"]
LoadTestSurface ==
    /\ lstep = "json" /\ loader = "test_surface"
    /\ LET c == IntersectionTest_surface(tab, desc) IN tab' = c.tab /\ top' = c.id
    /\ lstep' = "loaded"
    /\ UNCHANGED <<desc, loader>>
    /\ UNCHANGED <<boxVars, xfVars, isectVars, raceVars>>
    /\ UNCHANGED extVars

\* IntersectionTest(j) with j["surfaces"]
LoadTestSurfaces ==
    /\ lstep = "json" /\ loader = "test_surfaces"
    /\ LET c == IntersectionTest_surfaces(tab, desc) IN tab' = c.tab /\ top' = c.id
    /\ lstep' = "loaded"
    /\ UNCHANGED <<desc, loader>>
    /\ UNCHANGED <<boxVars, xfVars, isectVars, raceVars>>
    /\ UNCHANGED extVars

\* Scene::intersect or IntersectionTest::run: the first ray is sent to the top surface
Query ==
    /\ lstep = "loaded"
    /\ tab' = Tab_intersect(tab, top)
    /\ lstep' = "queried"
    /\ UNCHANGED <<desc, loader, top>>
    /\ UNCHANGED <<boxVars, xfVars, isectVars, raceVars>>
    /\ UNCHANGED extVars

NextLoad == LoadScene \/ LoadTestSurface \/ LoadTestSurfaces \/ Query

SpecLoad == InitLoad /\ [][NextLoad]_vars

\* the positions of the event ev in a log
Positions(log, ev) == {i \in DOMAIN log : log[i] = ev}

\* C3: every surface created while loading receives build() exactly once,
\* after all its add_child calls and before the first intersect that reaches it.
C3_BuiltOnceInOrder ==
    lstep \in {"loaded", "queried"} =>
        \A id \in DOMAIN tab :
            LET log == tab[id].log IN
            /\ Cardinality(Positions(log, "build")) = 1
            /\ \A b \in Positions(log, "build") :
                  /\ \A a \in Positions(log, "add_child") : a < b
                  /\ \A q \in Positions(log, "intersect") : b < q

(***************************************************************************)
(* Concurrent intersect calls on one built shape tree.  The only writes an *)
(* intersect call makes outside its own ray and hit record are the         *)
(* statistics counters and the static flag of put_your_code_here.          *)
(***************************************************************************)
\* the expansions of put_your_code_here that intersect calls can pass
PychSites ==
    {"Transform::ray", "Transform::point", "Sphere::intersect",
     "single_triangle_intersect", "BBHNode::intersect"}

RECURSIVE Surface_sites(_, _, _)
RECURSIVE Children_sites(_, _, _, _)
\* the sites passed by the loop over the children, in order
Children_sites(surfaces, r, hit, i) ==
    IF i > Len(surfaces) THEN <<>>
    ELSE LET c == Surface_intersect(surfaces[i], r, hit)
         IN  Surface_sites(surfaces[i], r, hit)
             \o Children_sites(surfaces, IF c.ret THEN [r EXCEPT !.maxt = c.hit.t] ELSE r,
                               c.hit, i + 1)

\* the put_your_code_here sites that s.intersect(r, hit) passes, in order
Surface_sites(s, r, hit) ==
    CASE s.type = "sphere"   -> <<"Sphere::intersect">>
      [] s.type = "triangle" -> <<"single_triangle_intersect">>
      [] s.type = "quad"     ->
            <<"Transform::ray">>
            \o (IF Quad_intersect(s, r, hit).ret THEN <<"Transform::point">> ELSE <<>>)
      [] s.type = "group"    ->
            <<"Transform::ray">>
            \o Children_sites(s.m_surfaces,
                              Transform_ray(Transform_inverse(s.m_xform), r), hit, 1)
            \o <<"Transform::point">>
      [] s.type = "bbh"      ->
            IF s.root = Null THEN <<>>
            ELSE <<"Transform::ray", "BBHNode::intersect", "Transform::point">>
      [] s.type = "bbhnode"  -> <<"BBHNode::intersect">>
      [] s.type = "bbhleaf"  -> Children_sites(s.surfaces, r, hit, 1)

Threads == 1..MaxThreads

TheSphere == Sphere_new(F(1), 1, Transform_default)
TheQuad   == Quad_new(<<F(2), F(2)>>, 2, Transform_default)

\* built shape trees
RaceTrees ==
    {TheSphere, TheQuad,
     SurfaceGroup_add_child(SurfaceGroup_add_child(SurfaceGroup_new(Transform_default),
                                                   TheSphere), TheQuad),
     BBH_build(SurfaceGroup_add_child(BBH_new(Transform_default), TheSphere)),
     BBH_build(BBH_new(Transform_default))}

\* the sites thread t passes
SitesOf(t) == Surface_sites(tree, trays[t], CHOOSE h \in HitInputs : TRUE)

InitRace ==
    /\ tstep = "run"
    /\ tree \in RaceTrees
    /\ trays \in [Threads -> IsectRays]
    /\ been_here = [site \in PychSites |-> FALSE]
    /\ tpc = [t \in Threads |-> 0]
    /\ tsub = [t \in Threads |-> "call"]
    /\ tstat = [t \in Threads |-> 0]
    /\ sharedWrites = 0
    /\ IdleBox /\ IdleXf /\ IdleIsect /\ IdleLoad
    /\ IdleExt

\* the thread has passed a site: it goes on to the next one or returns
AfterSite(t) ==
    /\ tpc' = [tpc EXCEPT ![t] = @ + 1]
    /\ tsub' = [tsub EXCEPT ![t] = IF tpc[t] + 1 >= Len(SitesOf(t)) THEN "done" ELSE "read"]

\* thread t enters intersect: the statistics counters it increments are thread-local
ThreadCall(t) ==
    /\ tstep = "run" /\ tsub[t] = "call"
    /\ tstat' = [tstat EXCEPT ![t] = @ + 1]
    /\ tsub' = [tsub EXCEPT ![t] = IF Len(SitesOf(t)) = 0 THEN "done" ELSE "read"]
    /\ UNCHANGED <<tstep, tree, trays, been_here, tpc, sharedWrites>>
    /\ UNCHANGED <<boxVars, xfVars, isectVars, loadVars>>
    /\ UNCHANGED extVars

\* put_your_code_here: if (!been_here)
ThreadRead(t) ==
    /\ tstep = "run" /\ tsub[t] = "read"
    /\ IF been_here[SitesOf(t)[tpc[t] + 1]]
       THEN AfterSite(t)
       ELSE tsub' = [tsub EXCEPT ![t] = "write"] /\ UNCHANGED tpc
    /\ UNCHANGED <<tstep, tree, trays, been_here, tstat, sharedWrites>>
    /\ UNCHANGED <<boxVars, xfVars, isectVars, loadVars>>
    /\ UNCHANGED extVars

\* put_your_code_here: been_here = true, a plain write to a static bool
ThreadWrite(t) ==
    /\ tstep = "run" /\ tsub[t] = "write"
    /\ been_here' = [been_here EXCEPT ![SitesOf(t)[tpc[t] + 1]] = TRUE]
    /\ sharedWrites' = sharedWrites + 1
    /\ AfterSite(t)
    /\ UNCHANGED <<tstep, tree, trays, tstat>>
    /\ UNCHANGED <<boxVars, xfVars, isectVars, loadVars>>
    /\ UNCHANGED extVars

NextRace == \E t \in Threads : ThreadCall(t) \/ ThreadRead(t) \/ ThreadWrite(t)

SpecRace == InitRace /\ [][NextRace]_vars

\* C4: no intersect call writes state shared between the threads.
C4_NoSharedWrite == tstep = "run" => sharedWrites = 0

(***************************************************************************)
(* Single calls of member functions on one surface: intersect, add_child,  *)
(* sample_child, add_to_parent and the BBH constructor.                    *)
(***************************************************************************)
\* a vector of rationals, each given as <<numerator, denominator>>
VecQ(s) == [i \in DOMAIN s |-> Frac(s[i][1], s[i][2])]

la_dot(u, v) == FSum([i \in DOMAIN u |-> Mul(u[i], v[i])], Len(u))

UnitSphere == Sphere_new(F(1), 1, Transform_default)
Quad22     == Quad_new(<<F(2), F(2)>>, 2, Transform_default)

\* the surfaces intersect is called on
CallSurfaces ==
    {UnitSphere,
     Sphere_new(F(2), 1, Transform_default),
     Quad22,
     Quad_new(<<F(4), F(1)>>, 2, Transform_default),
     Triangle_new(<<VecOf(<<0, 0, 0>>), VecOf(<<1, 0, 0>>), VecOf(<<0, 1, 0>>)>>, 1),
     SurfaceGroup_add_child(SurfaceGroup_new(Transform_default), UnitSphere),
     SurfaceGroup_add_child(SurfaceGroup_new(Transform_default), Quad22),
     BBH_build(SurfaceGroup_add_child(BBH_new(Transform_default), UnitSphere))}

\* the ray of test_ray_sphere_intersection, and rays that meet or miss a
\* sphere around the origin
SphereRays ==
    {Ray_new(VecQ(<<<<0 - 1, 4>>, <<1, 2>>, <<4, 1>>>>), VecOf(<<0, 0, 0 - 1>>), Ray_epsilon, PInf),
     Ray_new(VecOf(<<0, 0, 5>>), VecOf(<<0, 0, 0 - 1>>), F(0), PInf),
     Ray_new(VecOf(<<0, 0, 5>>), VecOf(<<0, 0, 0 - 1>>), F(1), F(2)),
     Ray_new(VecOf(<<0, 0, 5>>), VecOf(<<0, 0, 1>>), F(0), PInf),
     Ray_new(VecOf(<<5, 5, 5>>), VecOf(<<0, 1, 0>>), F(0), PInf),
     Ray_new(VecOf(<<0, 0, 0>>), VecOf(<<1, 0, 1>>), F(0), F(10))}

\* the ray of the quad test, and rays that meet or miss a quad in the plane z = 0
CallRays ==
    {Ray_new(VecOf(<<0, 0, 5>>), VecOf(<<0, 0, 0 - 1>>), Ray_epsilon, PInf),
     Ray_new(VecOf(<<0, 0, 5>>), VecOf(<<0, 0, 0 - 1>>), F(1), F(2)),
     Ray_new(VecOf(<<0, 0, 5>>), VecOf(<<0, 0, 1>>), Ray_epsilon, PInf),
     Ray_new(VecOf(<<5, 5, 5>>), VecOf(<<0, 1, 0>>), Ray_epsilon, PInf),
     Ray_new(VecOf(<<2, 0, 0 - 1>>), VecOf(<<0 - 1, 0, 1>>), Ray_epsilon, F(10)),
     Ray_new(VecOf(<<1, 1, 1>>), VecOf(<<0, 0, 0 - 1>>), Ray_epsilon, PInf)}

\* the rays sent to the surface s
RaysFor(s) == IF s.type = "sphere" THEN SphereRays ELSE CallRays

\* s.intersect(r, hit): r is taken by const reference, hit by reference
Call_intersect(s, r, hit) ==
    LET c == Surface_intersect(s, r, hit)
    IN  [threw |-> FALSE, ret |-> c.ret, hit |-> c.hit, ray |-> r]

InitCall ==
    /\ cstep = "ready" /\ cop = "none" /\ cself = NoVal /\ carg = NoVal
    /\ chit = NoVal /\ cout = NoVal
    /\ IdleBox /\ IdleXf /\ IdleIsect /\ IdleLoad /\ IdleRace /\ IdleHeap
    /\ IdleKD /\ IdleBar /\ IdleArr

\* HitInfo hit; surface->intersect(ray, hit)
CallIntersect ==
    /\ cstep = "ready"
    /\ \E s \in CallSurfaces, h \in HitInputs : \E r \in RaysFor(s) :
          /\ cself' = s /\ carg' = r /\ chit' = h
          /\ cout' = Call_intersect(s, r, h)
    /\ cop' = "intersect" /\ cstep' = "done"
    /\ UNCHANGED <<boxVars, xfVars, isectVars, loadVars, raceVars, heapVars>>
    /\ UNCHANGED <<kdVars, barVars, arrVars>>

\* a Mesh: vertex positions and, per face, three 0-based vertex indices
RECURSIVE Mesh_bbox(_, _, _)
\* the OBJ reader encloses every vertex it reads into mesh->bbox
Mesh_bbox(vs, b, i) ==
    IF i > Len(vs) THEN b ELSE Mesh_bbox(vs, Box_enclose_point(b, vs[i]), i + 1)

Mesh_new(vs, Fv) ==
    [type |-> "mesh", vs |-> vs, Fv |-> Fv, bbox |-> Mesh_bbox(vs, Box_default(3), 1)]

\* Mesh::empty
Mesh_empty(m) == Len(m.Fv) = 0 \/ Len(m.vs) = 0

\* Triangle::Triangle(j, mesh, tri_number), with the vertices Triangle::vertex reads
Triangle_of_mesh(mesh, tri_number) ==
    [type |-> "triangle", m_material |-> 0, m_face_idx |-> tri_number,
     vs |-> [k \in 1..3 |-> mesh.vs[mesh.Fv[tri_number + 1][k] + 1]]]

\* a call that goes wrong without throwing: the outcome is not defined by the language
Undefined == [threw |-> FALSE, undefined |-> TRUE]

\* a mistaken add_child: the base class silently ignores the child
Surface_add_child_silent(parent, surface) == [threw |-> FALSE, parent |-> parent]

\* parent->add_child(surface) by dynamic type: SurfaceGroup and BBH store the
\* child, every other surface inherits Surface::add_child, which throws
Surface_add_child(parent, surface) ==
    IF parent.type \in {"group", "bbh"}
    THEN [threw |-> FALSE, parent |-> SurfaceGroup_add_child(parent, surface)]
    ELSE [threw |-> TRUE, parent |-> parent]

RECURSIVE Mesh_add_faces(_, _, _)
\* the loop of Mesh::add_to_parent over range(mesh->Fv.size())
Mesh_add_faces(parent, mesh, index) ==
    IF index >= Len(mesh.Fv) THEN [threw |-> FALSE, parent |-> parent]
    ELSE LET c == Surface_add_child(parent, Triangle_of_mesh(mesh, index))
         IN  IF c.threw THEN c ELSE Mesh_add_faces(c.parent, mesh, index + 1)

\* a mistaken add_to_parent: the base class behaviour, the mesh adds itself
Mesh_add_to_parent_self(parent, self) == Surface_add_child(parent, self)

\* Mesh::add_to_parent(parent, self, j)
Mesh_add_to_parent_call(parent, self) ==
    LET mesh == IF self.type = "mesh" THEN self ELSE Null
    IN  IF mesh = Null THEN Undefined   \* !mesh && mesh->empty() dereferences null
        ELSE Mesh_add_faces(parent, mesh, 0)

\* the vertices of the unit square, and meshes of 0..MeshFaces triangles over them
MeshVerts == <<VecOf(<<0, 0, 0>>), VecOf(<<1, 0, 0>>), VecOf(<<1, 1, 0>>), VecOf(<<0, 1, 0>>)>>
MeshFaceSet == {<<0, 1, 2>>, <<0, 2, 3>>}
CallMeshes == {Mesh_new(MeshVerts, Fv) : Fv \in SeqsUpTo(MeshFaceSet, MeshFaces)}

\* the groups a surface is added to
CallParents ==
    {SurfaceGroup_new(Transform_default),
     SurfaceGroup_add_child(SurfaceGroup_new(Transform_default), UnitSphere),
     BBH_new(Transform_default)}

\* mesh->add_to_parent(parent, mesh, j)
CallAddToParent ==
    /\ cstep = "ready"
    /\ \E parent \in CallParents, m \in CallMeshes :
          /\ cself' = parent /\ carg' = m
          /\ cout' = Mesh_add_to_parent_call(parent, m)
    /\ chit' = NoVal
    /\ cop' = "add_to_parent" /\ cstep' = "done"
    /\ UNCHANGED <<boxVars, xfVars, isectVars, loadVars, raceVars, heapVars>>
    /\ UNCHANGED <<kdVars, barVars, arrVars>>

\* the values of j["split_method"]; "absent" stands for a json without the key
SplitNames == {"absent", "sah", "middle", "equal", "median", "SAH", ""}

\* BBH::BBH(j): the SurfaceGroup constructor, then max_leaf_size and split_method
BBH_ctor(j) ==
    LET sm == IF j.split_method = "absent" THEN "equal" ELSE j.split_method
    IN  [threw |-> FALSE,
         error_logged |-> sm \notin {"sah", "middle", "equal"},
         bbh |-> BBH_new(Transform_default),
         max_leaf_size |-> j.max_leaf_size,
         split_method |-> CASE sm = "sah"    -> "SAH"
                            [] sm = "middle" -> "Middle"
                            [] sm = "equal"  -> "Equal"
                            [] OTHER         -> "Equal"]

\* DartsFactory<Surface>::create({"type": "bbh", "split_method": ...})
CallBBHCtor ==
    /\ cstep = "ready"
    /\ \E sm \in SplitNames, mls \in 1..3 :
          /\ carg' = [split_method |-> sm, max_leaf_size |-> mls]
          /\ cout' = BBH_ctor([split_method |-> sm, max_leaf_size |-> mls])
    /\ cself' = NoVal /\ chit' = NoVal
    /\ cop' = "bbh_ctor" /\ cstep' = "done"
    /\ UNCHANGED <<boxVars, xfVars, isectVars, loadVars, raceVars, heapVars>>
    /\ UNCHANGED <<kdVars, barVars, arrVars>>

\* the surfaces add_child is called on, and the children handed to it
LeafTypes == {"sphere", "quad", "triangle", "mesh"}
CallLeaves ==
    {UnitSphere, Quad22,
     Triangle_new(<<VecOf(<<0, 0, 0>>), VecOf(<<1, 0, 0>>), VecOf(<<0, 1, 0>>)>>, 1),
     Mesh_new(MeshVerts, <<<<0, 1, 2>>>>)}

\* surface->add_child(child)
CallAddChild ==
    /\ cstep = "ready"
    /\ \E s \in CallLeaves \cup CallParents, c \in CallLeaves :
          /\ cself' = s /\ carg' = c
          /\ cout' = Surface_add_child(s, c)
    /\ chit' = NoVal
    /\ cop' = "add_child" /\ cstep' = "done"
    /\ UNCHANGED <<boxVars, xfVars, isectVars, loadVars, raceVars, heapVars>>
    /\ UNCHANGED <<kdVars, barVars, arrVars>>

\* (int) x for a finite float: truncation towards zero
FTrunc(a) == IF a.n >= 0 THEN a.n \div a.d ELSE -((-a.n) \div a.d)

\* std::clamp on ints
clamp(v, lo, hi) == IF v < lo THEN lo ELSE IF hi < v THEN hi ELSE v

\* a mistaken sample_child: the check for an empty group is missing
SurfaceGroup_sample_child_noCheck(g, rv1) ==
    LET size  == Len(g.m_surfaces)
        sx    == Mul(rv1, F(size))
        index == clamp(FTrunc(sx), 0, size - 1)
    IN  [threw |-> FALSE, rv1 |-> Sub(sx, F(index)), index |-> index,
         pdf |-> Div(F(1), F(size))]

\* a mistaken sample_child: the random number is not remapped
SurfaceGroup_sample_child_noRemap(g, rv1) ==
    IF Len(g.m_surfaces) = 0
    THEN [threw |-> TRUE, rv1 |-> rv1]
    ELSE LET size  == Len(g.m_surfaces)
             sx    == Mul(rv1, F(size))
             index == clamp(FTrunc(sx), 0, size - 1)
         IN  [threw |-> FALSE, rv1 |-> rv1, index |-> index,
              pdf |-> Div(F(1), F(size))]

\* SurfaceGroup::sample_child(rv1): rv1 is passed by reference
SurfaceGroup_sample_child(g, rv1) ==
    IF Len(g.m_surfaces) = 0
    THEN [threw |-> TRUE, rv1 |-> rv1]
    ELSE LET size  == Len(g.m_surfaces)
             sx    == Mul(rv1, F(size))
             index == clamp(FTrunc(sx), 0, size - 1)
         IN  [threw |-> FALSE, rv1 |-> Sub(sx, F(index)), index |-> index,
              pdf |-> Div(F(1), F(size))]

\* random numbers in [0, 1]
RvInputs == {F(0), Frac(1, 4), Frac(1, 2), Frac(3, 4), F(1)}

\* groups of 0..MaxChildren children
RECURSIVE GroupOf(_, _)
GroupOf(g, children) ==
    IF Len(children) = 0 THEN g
    ELSE GroupOf(SurfaceGroup_add_child(g, Head(children)), Tail(children))

CallGroups ==
    {GroupOf(g, ch) : g \in {SurfaceGroup_new(Transform_default), BBH_new(Transform_default)},
                      ch \in SeqsUpTo({UnitSphere, Quad22}, MaxChildren)}

\* group->sample_child(rv1)
CallSampleChild ==
    /\ cstep = "ready"
    /\ \E g \in CallGroups, rv1 \in RvInputs :
          /\ cself' = g /\ carg' = rv1
          /\ cout' = SurfaceGroup_sample_child(g, rv1)
    /\ chit' = NoVal
    /\ cop' = "sample_child" /\ cstep' = "done"
    /\ UNCHANGED <<boxVars, xfVars, isectVars, loadVars, raceVars, heapVars>>
    /\ UNCHANGED <<kdVars, barVars, arrVars>>

\* vertices near the origin and in the plane z = 2048
BoundsVerts ==
    {VecOf(<<0, 0, 0>>), VecOf(<<1, 0, 0>>), VecOf(<<0, 1, 0>>), VecOf(<<1, 1, 1>>),
     VecOf(<<0, 0, 2048>>), VecOf(<<1, 0, 2048>>), VecOf(<<0, 1, 2048>>)}

\* every triangle over these vertices: proper ones, triangles in an
\* axis-aligned plane and triangles with coincident vertices
BoundsTriangles ==
    {Triangle_new(<<v0, v1, v2>>, 1) : v0 \in BoundsVerts, v1 \in BoundsVerts, v2 \in BoundsVerts}

\* triangle->bounds()
CallBounds ==
    /\ cstep = "ready"
    /\ \E tri \in BoundsTriangles :
          /\ cself' = tri
          /\ cout' = Triangle_bounds(tri)
    /\ carg' = NoVal /\ chit' = NoVal
    /\ cop' = "bounds" /\ cstep' = "done"
    /\ UNCHANGED <<boxVars, xfVars, isectVars, loadVars, raceVars, heapVars>>
    /\ UNCHANGED <<kdVars, barVars, arrVars>>

(***************************************************************************)
(* Parsing a Transform from json (from_json for Mat44f and Transform).     *)
(* A json value is a record with a field kind: "object" (one command),     *)
(* "array" (elems, a list of values) or "number".                          *)
(***************************************************************************)
\* linalg::translation_matrix
translation_matrix(t) == MatOf(<<<<1, 0, 0, 0>>, <<0, 1, 0, 0>>, <<0, 0, 1, 0>>, <<t[1], t[2], t[3], 1>>>>)

\* linalg::scaling_matrix
scaling_matrix(sc) == MatOf(<<<<sc[1], 0, 0, 0>>, <<0, sc[2], 0, 0>>, <<0, 0, sc[3], 0>>, <<0, 0, 0, 1>>>>)

\* from_json(const json &j, mat<T, 4, 4> &m): the commands o/x/y/z, translate
\* and scale; any other object is an unrecognized command
from_json_Mat44(j, m) ==
    IF j.kind = "object" /\ j.cmd = "axes"
    THEN [threw |-> FALSE,
          m |-> MatOf(<<j.x \o <<0>>, j.y \o <<0>>, j.z \o <<0>>, j.o \o <<1>>>>)]
    ELSE IF j.kind = "object" /\ j.cmd = "translate"
    THEN [threw |-> FALSE, m |-> translation_matrix(j.v)]
    ELSE IF j.kind = "object" /\ j.cmd = "scale"
    THEN [threw |-> FALSE, m |-> scaling_matrix(j.v)]
    ELSE [threw |-> TRUE, m |-> m]

RECURSIVE from_json_elements_reversed(_, _, _)
\* a mistaken loop: each command is multiplied on the right
from_json_elements_reversed(elems, i, m) ==
    IF i > Len(elems) THEN [threw |-> FALSE, m |-> m]
    ELSE LET e == from_json_Mat44(elems[i], la_identity)
         IN  IF e.threw THEN [threw |-> TRUE, m |-> m]
             ELSE from_json_elements_reversed(elems, i + 1, mul(m, e.m))

RECURSIVE from_json_elements(_, _, _)
\* for (auto &element : j) m = mul(element.get<Mat44f>(), m), from element i on
from_json_elements(elems, i, m) ==
    IF i > Len(elems) THEN [threw |-> FALSE, m |-> m]
    ELSE LET e == from_json_Mat44(elems[i], la_identity)
         IN  IF e.threw THEN [threw |-> TRUE, m |-> m]
             ELSE from_json_elements(elems, i + 1, mul(e.m, m))

\* from_json(const json &j, Transform &v)
from_json_Transform(j, v) ==
    LET r == IF j.kind = "array" THEN from_json_elements(j.elems, 1, v.m)
             ELSE IF j.kind = "object" THEN from_json_Mat44(j, v.m)
             ELSE [threw |-> TRUE, m |-> v.m]
    IN  IF r.threw THEN [threw |-> TRUE, v |-> v]
        ELSE [threw |-> FALSE, v |-> Transform_ctor1(r.m)]

\* json::get<Transform>() and json::value(key, default) on a present key: a
\* default-constructed Transform is handed to from_json
json_get_Transform(j) == from_json_Transform(j, Transform_default)

\* single commands: translations, scalings (one of them singular), a
\* rotation and a shear written with o/x/y/z, and an unknown command
JsonCommands ==
    {[kind |-> "object", cmd |-> "translate", v |-> <<1, 0, 0>>],
     [kind |-> "object", cmd |-> "translate", v |-> <<0, 2, 0 - 1>>],
     [kind |-> "object", cmd |-> "scale", v |-> <<2, 1, 1>>],
     [kind |-> "object", cmd |-> "scale", v |-> <<2, 2, 2>>],
     [kind |-> "object", cmd |-> "scale", v |-> <<1, 0, 1>>],
     [kind |-> "object", cmd |-> "axes", x |-> <<0, 1, 0>>, y |-> <<0 - 1, 0, 0>>,
      z |-> <<0, 0, 1>>, o |-> <<0, 0, 0>>],
     [kind |-> "object", cmd |-> "axes", x |-> <<1, 0, 0>>, y |-> <<1, 1, 0>>,
      z |-> <<0, 0, 1>>, o |-> <<0, 0, 3>>],
     [kind |-> "object", cmd |-> "unknown"]}

\* the values of a "transform" field: a command, a list of commands, a number
JsonTransforms ==
    JsonCommands \cup {[kind |-> "number"]}
    \cup {[kind |-> "array", elems |-> es] : es \in SeqsUpTo(JsonCommands, MaxCommands)}

\* j.get<Transform>() for the value j of a "transform" field
CallParse ==
    /\ cstep = "ready"
    /\ \E j \in JsonTransforms :
          /\ carg' = j
          /\ cout' = json_get_Transform(j)
    /\ cself' = NoVal /\ chit' = NoVal
    /\ cop' = "from_json" /\ cstep' = "done"
    /\ UNCHANGED <<boxVars, xfVars, isectVars, loadVars, raceVars, heapVars>>
    /\ UNCHANGED <<kdVars, barVars, arrVars>>

NextCall ==
    \/ CallIntersect \/ CallAddToParent \/ CallBBHCtor \/ CallAddChild \/ CallSampleChild
    \/ CallBounds \/ CallParse

SpecCall == InitCall /\ [][NextCall]_vars

\* the quadratic a t^2 + b t + c whose roots are the parameters at which the
\* ray r meets the sphere of the given radius around the origin
SphereQuad(radius, r) ==
    [a |-> la_dot(r.d, r.d),
     b |-> Mul(F(2), la_dot(r.o, r.d)),
     c |-> Sub(la_dot(r.o, r.o), Mul(radius, radius))]

QuadAt(q, t) == Add(Add(Mul(q.a, Mul(t, t)), Mul(q.b, t)), q.c)

\* the quadratic q (q.a > 0) has a root in [lo, hi]; hi may be +inf
RootIn(q, lo, hi) ==
    LET disc   == Sub(Mul(q.b, q.b), Mul(F(4), Mul(q.a, q.c)))
        vertex == Div(Neg(q.b), Mul(F(2), q.a))
        flo    == QuadAt(q, lo)
    IN  /\ LessEq(F(0), disc)
        /\ LessEq(lo, hi)
        /\ IF IsInf(hi)
           THEN LessEq(flo, F(0)) \/ Less(lo, vertex)
           ELSE LET fhi == QuadAt(q, hi)
                IN  \/ LessEq(flo, F(0)) /\ LessEq(F(0), fhi)
                    \/ LessEq(fhi, F(0)) /\ LessEq(F(0), flo)
                    \/ Less(F(0), flo) /\ Less(F(0), fhi) /\ Less(lo, vertex) /\ Less(vertex, hi)

\* the ray r meets the sphere s (identity transform) inside [mint, maxt]
SphereMeets(s, r) == RootIn(SphereQuad(s.m_radius, r), r.mint, r.maxt)

FNear(a, b) == Less(Sub(a, b), Frac(1, 100000)) /\ Less(Sub(b, a), Frac(1, 100000))

\* C11: Sphere::intersect returns true exactly when the ray meets the sphere
\* inside [mint, maxt]; then hit.t is the smallest such parameter, hit.p the
\* point there and hit.gn = hit.sn the unit outward normal; the unit sphere
\* and the ray from (-0.25, 0.5, 4) along (0,0,-1) give t = 3.170844 and
\* p = n = (-0.25, 0.5, 0.829156).
C11_SphereIntersect ==
    (cstep = "done" /\ cop = "intersect" /\ cself.type = "sphere") =>
        /\ cout.ret <=> SphereMeets(cself, carg)
        /\ cout.ret =>
              /\ LessEq(carg.mint, cout.hit.t) /\ LessEq(cout.hit.t, carg.maxt)
              /\ FNear(QuadAt(SphereQuad(cself.m_radius, carg), cout.hit.t), F(0))
              /\ ~RootIn(SphereQuad(cself.m_radius, carg), carg.mint,
                         Sub(cout.hit.t, Frac(1, 1000)))
              /\ VNear(cout.hit.p, Ray_at(carg, cout.hit.t))
              /\ cout.hit.gn = cout.hit.sn
              /\ VNear(cout.hit.gn, VScale(Recip(cself.m_radius), cout.hit.p))
        /\ (cself = UnitSphere /\ carg.o = VecQ(<<<<0 - 1, 4>>, <<1, 2>>, <<4, 1>>>>)) =>
              /\ cout.ret
              /\ FNear(cout.hit.t, Frac(3170844, 1000000))
              /\ VNear(cout.hit.p, VecQ(<<<<0 - 250000, 1000000>>, <<500000, 1000000>>,
                                          <<829156, 1000000>>>>))

\* C12: a Quad with an identity transform, hit by a ray with d.z # 0 inside
\* its rectangle and inside [mint, maxt], reports the hit: hit.t = -o.z/d.z,
\* hit.p the plane point with z = 0, normal (0,0,1); size [2,2] and the ray
\* from (0,0,5) along (0,0,-1) give t = 5, p = (0,0,0).
C12_QuadHit ==
    (cstep = "done" /\ cop = "intersect" /\ cself.type = "quad"
        /\ ~FEq(carg.d[3], F(0))) =>
        LET t == Div(Neg(carg.o[3]), carg.d[3])
            p == Ray_at(carg, t)
        IN  (/\ LessEq(FAbs(p[1]), cself.m_size[1])
             /\ LessEq(FAbs(p[2]), cself.m_size[2])
             /\ LessEq(carg.mint, t) /\ LessEq(t, carg.maxt)) =>
                /\ cout.ret
                /\ FEq(cout.hit.t, t)
                /\ VNear(cout.hit.p, <<p[1], p[2], F(0)>>)
                /\ VNear(cout.hit.gn, VecOf(<<0, 0, 1>>))
                /\ VNear(cout.hit.sn, VecOf(<<0, 0, 1>>))

\* C13: Mesh::add_to_parent gives the parent one Triangle child per face
\* index 0..|Fv|-1, each face once and in order after the children it had,
\* never the mesh itself; a mesh without faces adds nothing; no exception.
C13_MeshAddsTriangles ==
    (cstep = "done" /\ cop = "add_to_parent") =>
        /\ ~cout.threw
        /\ LET old == cself.m_surfaces
               new == cout.parent.m_surfaces
           IN  /\ Len(new) = Len(old) + Len(carg.Fv)
               /\ \A i \in 1..Len(old) : new[i] = old[i]
               /\ \A i \in 1..Len(new) : new[i] # carg /\ new[i].type # "mesh"
               /\ \A f \in 0..(Len(carg.Fv) - 1) :
                     /\ new[Len(old) + f + 1].type = "triangle"
                     /\ new[Len(old) + f + 1].m_face_idx = f
                     /\ Cardinality({i \in (Len(old) + 1)..Len(new) :
                                        new[i].m_face_idx = f}) = 1

\* a mesh of two faces was added to a group that already had a child
C13_Witness ==
    /\ cstep = "done" /\ cop = "add_to_parent"
    /\ Len(carg.Fv) = 2 /\ Len(cself.m_surfaces) = 1
    /\ Len(cout.parent.m_surfaces) = 3

\* a mesh without faces was added
C13_WitnessEmpty ==
    /\ cstep = "done" /\ cop = "add_to_parent"
    /\ Mesh_empty(carg) /\ ~cout.threw /\ cout.parent = cself

\* C14: constructing a BBH with a split_method name other than sah, middle
\* or equal throws and produces no BBH.
C14_UnknownSplitMethodThrows ==
    (cstep = "done" /\ cop = "bbh_ctor"
        /\ carg.split_method \notin {"absent", "sah", "middle", "equal"}) =>
        cout.threw

\* C15: add_child on a leaf shape (Sphere, Quad, Triangle, Mesh) throws and
\* stores the child nowhere.
C15_AddChildOnLeafThrows ==
    (cstep = "done" /\ cop = "add_child" /\ cself.type \in LeafTypes) =>
        /\ cout.threw
        /\ cout.parent = cself

\* add_child was called on a sphere and threw
C15_Witness ==
    /\ cstep = "done" /\ cop = "add_child" /\ cself.type = "sphere"
    /\ cout.threw /\ cout.parent = cself

\* C16: sample_child on a group without children throws and leaves rv1 as
\* it was.
C16_SampleEmptyThrows ==
    (cstep = "done" /\ cop = "sample_child" /\ Len(cself.m_surfaces) = 0) =>
        /\ cout.threw
        /\ cout.rv1 = carg

\* sample_child was called on an empty group with rv1 = 1/2 and threw
C16_Witness ==
    /\ cstep = "done" /\ cop = "sample_child" /\ Len(cself.m_surfaces) = 0
    /\ carg = Frac(1, 2) /\ cout.threw /\ cout.rv1 = Frac(1, 2)

\* C17: after an intersect call that returned true, the maxt of the ray that
\* was passed to the call equals hit.t.
C17_RayMaxtIsHitT ==
    (cstep = "done" /\ cop = "intersect" /\ cout.ret) =>
        FEq(cout.ray.maxt, cout.hit.t)

\* some intersect call returned true
C17_SomeHit == cstep = "done" /\ cop = "intersect" /\ cout.ret

(***************************************************************************)
(* PointKDTree<3, float, Photon> and KNNSearch (point_kdtree.h, photon.h). *)
(* Positions have small integer coordinates, so squared distances are      *)
(* exact.  Indices are 0-based as in the code: node i is knodes[i + 1].    *)
(* find() also carries the bounding box of the current subtree; the search *)
(* objects never read it, so it is left out.                               *)
(***************************************************************************)
KDPoints  == {<<0, 0, 0>>, <<1, 0, 0>>, <<3, 0, 0>>, <<0, 2, 0>>}
KDQueries == {<<0, 0, 0>>, <<2, 0, 0>>, <<1, 1, 0>>}
KDRadii2  == {3, 100}

\* PointKDTree::Node; Photon::flags is not initialised by the constructor and
\* axis() is only read by find() for nodes on which build() has called set_axis
KDNode(position) == [position |-> position, axis |-> 0]

\* length2(a - b)
length2(a, b) ==
    (a[1] - b[1]) * (a[1] - b[1]) + (a[2] - b[2]) * (a[2] - b[2])
        + (a[3] - b[3]) * (a[3] - b[3])

\* la::argmax of a 3-vector of floats: the first largest component, 0-based
la_argmax(v) ==
    LET j1 == IF Less(v[1], v[2]) THEN 2 ELSE 1
        j2 == IF Less(v[j1], v[3]) THEN 3 ELSE j1
    IN  j2 - 1

\* Box::diagonal
Box_diagonal(b) == [i \in DOMAIN b.min |-> Sub(b.max[i], b.min[i])]

\* the arrangements std::nth_element may leave in nodes[lo..hi]: the element
\* at median is the one a sort would put there, none before it is greater and
\* none after it is smaller, compared by position[axis]
KD_nth_element(nodes, lo, median, hi, axis) ==
    LET n     == hi - lo + 1
        perms == {f \in [0..(n - 1) -> 0..(n - 1)] :
                     \A a, b \in 0..(n - 1) : a # b => f[a] # f[b]}
        arranged(f) == [i \in 1..Len(nodes) |->
                     IF (i - 1) \in lo..hi THEN nodes[lo + f[i - 1 - lo] + 1] ELSE nodes[i]]
        val(a, i) == a[i + 1].position[axis + 1]
    IN  {a \in {arranged(f) : f \in perms} :
            /\ \A i \in lo..(median - 1) : val(a, i) <= val(a, median)
            /\ \A i \in (median + 1)..hi : val(a, median) <= val(a, i)}

RECURSIVE KD_build(_, _, _, _)
\* PointKDTree::build(lo, hi): the node arrays it may produce
KD_build(nodes, lo, hi, bounds) ==
    IF hi - lo <= 0 THEN {nodes}
    ELSE LET median == (lo + hi) \div 2
             axis   == la_argmax(Box_diagonal(bounds))
         IN  UNION {
               LET n1    == [a EXCEPT ![median + 1].axis = axis]
                   split == F(n1[median + 1].position[axis + 1])
                   lb    == [bounds EXCEPT !.max[axis + 1] = split]
                   rb    == [bounds EXCEPT !.min[axis + 1] = split]
               IN  UNION {KD_build(n2, median + 1, hi, rb) :
                             n2 \in KD_build(n1, lo, median - 1, lb)}
               : a \in KD_nth_element(nodes, lo, median, hi, axis)}

\* KNNSearch::KNNSearch(q, md2, max_count); results.reserve(max_count) gives
\* the vector the capacity max_count; md2 keeps the constructor argument
KNNSearch_new(q, md2, max_count) ==
    [query_position |-> q, max_dist2 |-> md2, results |-> <<>>, is_heap |-> FALSE,
     capacity |-> max_count, md2 |-> md2]

SearchResult(photon, dist2) == [photon |-> photon, dist2 |-> dist2]

\* results.front().dist2 of a max-heap: the largest dist2
Heap_front(results) ==
    CHOOSE d \in {results[i].dist2 : i \in DOMAIN results} :
        \A i \in DOMAIN results : results[i].dist2 <= d

\* KNNSearch::check(photon) for the node at index: the states it may leave the
\* search in (pop_heap may remove any of several equally distant photons)
KNNSearch_check(search, nodes, index) ==
    LET dist2 == length2(nodes[index + 1].position, search.query_position)
    IN  IF dist2 >= search.max_dist2 THEN {search}
        ELSE IF Len(search.results) < search.capacity
        THEN {[search EXCEPT !.results = Append(@, SearchResult(index, dist2))]}
        ELSE {LET r == [search.results EXCEPT ![v] = SearchResult(index, dist2)]
              IN  [search EXCEPT !.is_heap = TRUE, !.results = r, !.max_dist2 = Heap_front(r)]
              : v \in {i \in DOMAIN search.results :
                          search.results[i].dist2 = Heap_front(search.results)}}

\* FixedRadiusProcess::FixedRadiusProcess(q, md2, f); calls is the list of
\* the nodes f has been invoked with, md2 keeps the constructor argument
FixedRadiusProcess_new(q, md2) ==
    [query_position |-> q, max_dist2 |-> md2, calls |-> <<>>, md2 |-> md2]

\* a mistaken check: a node at exactly the radius is processed too
FixedRadiusProcess_check_inclusive(search, nodes, index) ==
    LET dist2 == length2(nodes[index + 1].position, search.query_position)
    IN  IF dist2 > search.max_dist2 THEN search
        ELSE [search EXCEPT !.calls = Append(@, SearchResult(index, dist2))]

\* FixedRadiusProcess::check(photon) for the node at index
FixedRadiusProcess_check(search, nodes, index) ==
    LET dist2 == length2(nodes[index + 1].position, search.query_position)
    IN  IF dist2 >= search.max_dist2 THEN search
        ELSE [search EXCEPT !.calls = Append(@, SearchResult(index, dist2))]

\* search.check(nodes[index]) in find<Search>, by the type of the search object
Search_check(search, nodes, index) ==
    IF "calls" \in DOMAIN search
    THEN {FixedRadiusProcess_check(search, nodes, index)}
    ELSE KNNSearch_check(search, nodes, index)

\* SearchBase::check_children
SearchBase_check_children(search, photon, search_left, search_right) ==
    LET axis  == photon.axis
        dist1 == search.query_position[axis + 1] - photon.position[axis + 1]
    IN  IF dist1 < 0
        THEN [ret |-> TRUE, search_left |-> search_left,
              search_right |-> search_right /\ dist1 * dist1 < search.max_dist2]
        ELSE [ret |-> FALSE, search_right |-> search_right,
              search_left |-> search_left /\ dist1 * dist1 < search.max_dist2]

\* what one pass through the loop of PointKDTree::find does to lo, hi and todo
\* after search.check(node); search is the search object after that check
KD_find_descend(nodes, search, lo, hi, todo) ==
    LET median == (lo + hi) \div 2
        cc     == SearchBase_check_children(search, nodes[median + 1],
                                            median - lo >= 1, hi - median >= 1)
        pop    == IF Len(todo) > 0
                  THEN [lo |-> todo[Len(todo)].lo, hi |-> todo[Len(todo)].hi,
                        todo |-> SubSeq(todo, 1, Len(todo) - 1), done |-> FALSE]
                  ELSE [lo |-> lo, hi |-> hi, todo |-> todo, done |-> TRUE]
    IN  IF hi - lo >= 1
        THEN IF cc.search_left /\ cc.search_right
             THEN IF cc.ret
                  THEN [lo |-> lo, hi |-> median - 1, done |-> FALSE,
                        todo |-> Append(todo, [lo |-> median + 1, hi |-> hi])]
                  ELSE [lo |-> median + 1, hi |-> hi, done |-> FALSE,
                        todo |-> Append(todo, [lo |-> lo, hi |-> median - 1])]
             ELSE IF cc.search_left
             THEN [lo |-> lo, hi |-> median - 1, todo |-> todo, done |-> FALSE]
             ELSE IF cc.search_right
             THEN [lo |-> median + 1, hi |-> hi, todo |-> todo, done |-> FALSE]
             ELSE pop
        ELSE pop

InitKD ==
    /\ kstep = "insert"
    /\ knodes = <<>>
    /\ kbounds = Box_default(3)
    /\ \E q \in KDQueries, r2 \in KDRadii2, k \in 1..MaxCount :
          ksearch = KNNSearch_new(q, r2, k)
    /\ klo = 0 /\ khi = 0 /\ ktodo = <<>>
    /\ IdleBox /\ IdleXf /\ IdleIsect /\ IdleLoad /\ IdleRace /\ IdleHeap
    /\ IdleCall /\ IdleBar /\ IdleArr

\* squared radii of a FixedRadiusProcess; 1 and 2 are squared distances of
\* stored points to some of the queries
FixedRadii2 == {1, 2, 3, 100}

\* an empty PhotonMap and a FixedRadiusProcess search(q, r2, f)
InitKDFixed ==
    /\ kstep = "insert"
    /\ knodes = <<>>
    /\ kbounds = Box_default(3)
    /\ \E q \in KDQueries, r2 \in FixedRadii2 : ksearch = FixedRadiusProcess_new(q, r2)
    /\ klo = 0 /\ khi = 0 /\ ktodo = <<>>
    /\ IdleBox /\ IdleXf /\ IdleIsect /\ IdleLoad /\ IdleRace /\ IdleHeap
    /\ IdleCall /\ IdleBar /\ IdleArr

\* photon_map.insert(p, photon)
KDInsert ==
    /\ kstep = "insert"
    /\ Len(knodes) < MaxPoints
    /\ \E p \in KDPoints :
          /\ knodes' = Append(knodes, KDNode(p))
          /\ kbounds' = Box_enclose_point(kbounds, VecOf(p))
    /\ UNCHANGED <<kstep, ksearch, klo, khi, ktodo>>
    /\ UNCHANGED <<boxVars, xfVars, isectVars, loadVars, raceVars, heapVars>>
    /\ UNCHANGED <<callVars, barVars, arrVars>>

\* photon_map.build()
KDBuild ==
    /\ kstep = "insert"
    /\ knodes' \in KD_build(knodes, 0, Len(knodes) - 1, kbounds)
    /\ kstep' = "built"
    /\ UNCHANGED <<kbounds, ksearch, klo, khi, ktodo>>
    /\ UNCHANGED <<boxVars, xfVars, isectVars, loadVars, raceVars, heapVars>>
    /\ UNCHANGED <<callVars, barVars, arrVars>>

\* photon_map.find(search), up to the loop
KDFind ==
    /\ kstep = "built"
    /\ IF Len(knodes) <= 0
       THEN kstep' = "done" /\ UNCHANGED <<klo, khi>>
       ELSE kstep' = "search" /\ klo' = 0 /\ khi' = Len(knodes) - 1
    /\ UNCHANGED <<knodes, kbounds, ksearch, ktodo>>
    /\ UNCHANGED <<boxVars, xfVars, isectVars, loadVars, raceVars, heapVars>>
    /\ UNCHANGED <<callVars, barVars, arrVars>>

\* one pass through the loop of find()
KDFindStep ==
    /\ kstep = "search"
    /\ \E s1 \in Search_check(ksearch, knodes, (klo + khi) \div 2) :
          LET nx == KD_find_descend(knodes, s1, klo, khi, ktodo)
          IN  /\ ksearch' = s1
              /\ klo' = nx.lo /\ khi' = nx.hi /\ ktodo' = nx.todo
              /\ kstep' = IF nx.done THEN "done" ELSE "search"
    /\ UNCHANGED <<knodes, kbounds>>
    /\ UNCHANGED <<boxVars, xfVars, isectVars, loadVars, raceVars, heapVars>>
    /\ UNCHANGED <<callVars, barVars, arrVars>>

NextKD == KDInsert \/ KDBuild \/ KDFind \/ KDFindStep

SpecKD == InitKD /\ [][NextKD]_vars

SpecKDFixed == InitKDFixed /\ [][NextKD]_vars

\* the squared distance of node i to the query position
KDDist2(i) == length2(knodes[i + 1].position, ksearch.query_position)

\* the nodes within the search radius given to the constructor
KDWithin == {i \in 0..(Len(knodes) - 1) : KDDist2(i) < ksearch.md2}

\* the nodes in search.results
KDFound == {ksearch.results[i].photon : i \in DOMAIN ksearch.results}

IMin(a, b) == IF a < b THEN a ELSE b

\* C18: after build(), find() with a KNNSearch(q, r2, k) leaves in results
\* exactly the min(k, m) nearest of the m stored points within r2 of q: no
\* returned point is farther from q than a point within r2 that was left out.
C18_KNearest ==
    kstep = "done" =>
        /\ Len(ksearch.results) = IMin(ksearch.capacity, Cardinality(KDWithin))
        /\ Cardinality(KDFound) = Len(ksearch.results)
        /\ KDFound \subseteq KDWithin
        /\ \A a \in KDFound : \A b \in KDWithin \ KDFound : KDDist2(a) <= KDDist2(b)

(***************************************************************************)
(* Barrier (parallel.h): n threads call block() once each on a Barrier(n); *)
(* the thread that receives true deletes the barrier, as for_each_thread   *)
(* does.  A condition variable may wake a waiting thread at any time.      *)
(***************************************************************************)
BThreads == DOMAIN bpc

\* a mistaken predicate: a waiting thread goes on at its first wake-up
Barrier_wait_pred_any(num_to_block) == num_to_block >= 0

\* the predicate of m_cv.wait
Barrier_wait_pred(num_to_block) == num_to_block = 0

\* a mistaken return value: true for every thread
Barrier_return_any(num_to_exit) == num_to_exit >= 0

\* the value of 'return --m_num_to_exit == 0', given the decremented counter
Barrier_return(num_to_exit) == num_to_exit = 0

\* every step of block() reads or writes members of the barrier
BarrierUsed == bstale' = (bstale \/ bdeleted)

\* Barrier *barrier = new Barrier(n)
InitBarrier ==
    /\ \E n \in 1..MaxTasks :
          /\ bpc = [t \in 1..n |-> "start"]
          /\ bret = [t \in 1..n |-> "none"]
          /\ m_num_to_block = n
          /\ m_num_to_exit = n
    /\ m_mutex = 0
    /\ bdeleted = FALSE /\ bstale = FALSE
    /\ IdleBox /\ IdleXf /\ IdleIsect /\ IdleLoad /\ IdleRace /\ IdleHeap
    /\ IdleCall /\ IdleKD /\ IdleArr

\* std::unique_lock<std::mutex> lock(m_mutex)
BLock(t) ==
    /\ bpc[t] = "start" /\ m_mutex = 0
    /\ m_mutex' = t
    /\ bpc' = [bpc EXCEPT ![t] = "locked"]
    /\ BarrierUsed
    /\ UNCHANGED <<m_num_to_block, m_num_to_exit, bret, bdeleted>>
    /\ UNCHANGED <<boxVars, xfVars, isectVars, loadVars, raceVars, heapVars>>
    /\ UNCHANGED <<callVars, kdVars, arrVars>>

\* --m_num_to_block, then m_cv.wait (which releases the mutex) or m_cv.notify_all
BArrive(t) ==
    /\ bpc[t] = "locked"
    /\ m_num_to_block' = m_num_to_block - 1
    /\ IF m_num_to_block - 1 > 0
       THEN /\ bpc' = [bpc EXCEPT ![t] = "waiting"]
            /\ m_mutex' = 0
       ELSE /\ bpc' = [bpc EXCEPT ![t] = "exit"]
            /\ UNCHANGED m_mutex
    /\ BarrierUsed
    /\ UNCHANGED <<m_num_to_exit, bret, bdeleted>>
    /\ UNCHANGED <<boxVars, xfVars, isectVars, loadVars, raceVars, heapVars>>
    /\ UNCHANGED <<callVars, kdVars, arrVars>>

\* a waiting thread wakes up (notified or not), takes the mutex again and
\* tests the predicate; it goes back to waiting when the predicate is false
BWake(t) ==
    /\ bpc[t] = "waiting" /\ m_mutex = 0
    /\ IF Barrier_wait_pred(m_num_to_block)
       THEN /\ bpc' = [bpc EXCEPT ![t] = "exit"]
            /\ m_mutex' = t
       ELSE UNCHANGED <<bpc, m_mutex>>
    /\ BarrierUsed
    /\ UNCHANGED <<m_num_to_block, m_num_to_exit, bret, bdeleted>>
    /\ UNCHANGED <<boxVars, xfVars, isectVars, loadVars, raceVars, heapVars>>
    /\ UNCHANGED <<callVars, kdVars, arrVars>>

\* return --m_num_to_exit == 0: the return value is computed under the mutex
BExit(t) ==
    /\ bpc[t] = "exit"
    /\ m_num_to_exit' = m_num_to_exit - 1
    /\ bret' = [bret EXCEPT ![t] = IF Barrier_return(m_num_to_exit - 1)
                                   THEN "true" ELSE "false"]
    /\ bpc' = [bpc EXCEPT ![t] = "unlock"]
    /\ BarrierUsed
    /\ UNCHANGED <<m_mutex, m_num_to_block, bdeleted>>
    /\ UNCHANGED <<boxVars, xfVars, isectVars, loadVars, raceVars, heapVars>>
    /\ UNCHANGED <<callVars, kdVars, arrVars>>

\* the destructor of lock releases the mutex and block() returns
BUnlock(t) ==
    /\ bpc[t] = "unlock"
    /\ m_mutex' = 0
    /\ bpc' = [bpc EXCEPT ![t] = "returned"]
    /\ BarrierUsed
    /\ UNCHANGED <<m_num_to_block, m_num_to_exit, bret, bdeleted>>
    /\ UNCHANGED <<boxVars, xfVars, isectVars, loadVars, raceVars, heapVars>>
    /\ UNCHANGED <<callVars, kdVars, arrVars>>

\* if (barrier->block()) delete barrier
BDelete(t) ==
    /\ bpc[t] = "returned" /\ bret[t] = "true" /\ ~bdeleted
    /\ bdeleted' = TRUE
    /\ bpc' = [bpc EXCEPT ![t] = "deleted"]
    /\ UNCHANGED <<m_mutex, m_num_to_block, m_num_to_exit, bret, bstale>>
    /\ UNCHANGED <<boxVars, xfVars, isectVars, loadVars, raceVars, heapVars>>
    /\ UNCHANGED <<callVars, kdVars, arrVars>>

NextBarrier ==
    \E t \in BThreads :
        BLock(t) \/ BArrive(t) \/ BWake(t) \/ BExit(t) \/ BUnlock(t) \/ BDelete(t)

SpecBarrier == InitBarrier /\ [][NextBarrier]_vars

\* the steps of thread t inside block() once it holds or has held the mutex
BInside(t) == t \in BThreads /\ (BArrive(t) \/ BWake(t) \/ BExit(t) \/ BUnlock(t))

\* a thread that can take a step inside block() is scheduled eventually;
\* notify_all wakes every waiting thread, and wait tests the predicate first
SpecBarrierLive == SpecBarrier /\ \A t \in 1..MaxTasks : WF_vars(BInside(t))

\* the threads whose block() has returned
BReturned == {t \in BThreads : bpc[t] \in {"returned", "deleted"}}

\* C19: on a Barrier(n) used by n threads, block() returns true to exactly
\* one thread and false to the others; when a thread receives true every
\* other thread has left block(), so no thread uses the barrier after it has
\* been deleted, and no thread stays blocked.
C19_BarrierLastOut ==
    /\ Cardinality({t \in BThreads : bret[t] = "true"}) <= 1
    /\ \A t \in BThreads :
          bret[t] = "true" =>
              \A u \in BThreads \ {t} : u \in BReturned /\ bret[u] = "false"
    /\ ~bstale
    /\ (BReturned = BThreads) => Cardinality({t \in BThreads : bret[t] = "true"}) = 1
    /\ (~ENABLED NextBarrier) => (BReturned = BThreads /\ bdeleted)

\* three threads have passed the barrier and the one that got true deleted it
C19_Witness ==
    /\ Cardinality(BThreads) = 3 /\ BReturned = BThreads /\ bdeleted
    /\ Cardinality({t \in BThreads : bret[t] = "false"}) = 2

(***************************************************************************)
(* Array2d (array2d.h): a width x height array kept in one std::vector,    *)
(* row after row.  A reference to an element is modelled as the element's  *)
(* position in m_data, counted from 0.                                     *)
(***************************************************************************)
\* Array2d(size_x, size_y, value): m_data(size_x * size_y, value), m_size(size_x, size_y)
Array2d_new(size_x, size_y, value) ==
    [m_size |-> <<size_x, size_y>>,
     m_data |-> [i \in 1..(size_x * size_y) |-> value]]

Array2d_width(a)  == a.m_size[1]
Array2d_height(a) == a.m_size[2]

\* index_1d: y * m_size.x + x
Array2d_index_1d(a, x, y) == y * a.m_size[1] + x

\* std::vector::at(n): throws std::out_of_range unless n < size(); a
\* negative int converted to size_type is larger than any size
vector_at(data, n) ==
    IF n < 0 \/ n >= Len(data)
    THEN [threw |-> TRUE, ref |-> -1]
    ELSE [threw |-> FALSE, ref |-> n]

\* at(x, y): m_data.at(index_1d(x, y))
Array2d_at(a, x, y) == vector_at(a.m_data, Array2d_index_1d(a, x, y))

\* resize(size): nothing when the size is unchanged, else m_data.resize, which
\* keeps the leading elements and appends value-initialised ones
Array2d_resize(a, size) ==
    IF size = a.m_size
    THEN a
    ELSE [m_size |-> size,
          m_data |-> [i \in 1..(size[1] * size[2]) |->
                         IF i <= Len(a.m_data) THEN a.m_data[i] ELSE 0]]

ArraySides == 0..MaxSide
ArrayCoords == (-1)..(MaxSide + 1)

InitArr ==
    /\ astep = "made"
    /\ \E size_x \in ArraySides, size_y \in ArraySides :
          arr = Array2d_new(size_x, size_y, 1)
    /\ ax = 0 /\ ay = 0 /\ aout = NoVal
    /\ IdleBox /\ IdleXf /\ IdleIsect /\ IdleLoad /\ IdleRace /\ IdleHeap
    /\ IdleCall /\ IdleKD /\ IdleBar

ArrResize ==
    /\ astep = "made"
    /\ \E size_x \in ArraySides, size_y \in ArraySides :
          arr' = Array2d_resize(arr, <<size_x, size_y>>)
    /\ UNCHANGED <<astep, ax, ay, aout>>
    /\ UNCHANGED <<boxVars, xfVars, isectVars, loadVars, raceVars, heapVars>>
    /\ UNCHANGED <<callVars, kdVars, barVars>>

ArrAt ==
    /\ astep = "made"
    /\ \E x \in ArrayCoords, y \in ArrayCoords :
          /\ ax' = x /\ ay' = y
          /\ aout' = Array2d_at(arr, x, y)
    /\ astep' = "done"
    /\ UNCHANGED arr
    /\ UNCHANGED <<boxVars, xfVars, isectVars, loadVars, raceVars, heapVars>>
    /\ UNCHANGED <<callVars, kdVars, barVars>>

NextArr == ArrResize \/ ArrAt

SpecArr == InitArr /\ [][NextArr]_vars

\* (x, y) names an element of the array
ArrInRange ==
    /\ 0 <= ax /\ ax < Array2d_width(arr)
    /\ 0 <= ay /\ ay < Array2d_height(arr)

\* C20: at(x, y) throws for every (x, y) with x outside [0, width) or y
\* outside [0, height), and for every (x, y) in range it returns the element
\* of column x in row y.
C20_AtBoundsChecked ==
    astep = "done" =>
        IF ArrInRange
        THEN ~aout.threw /\ aout.ref = ay * Array2d_width(arr) + ax
        ELSE aout.threw

(***************************************************************************)
(* Claims about the linear scan of SurfaceGroup::intersect                 *)
(***************************************************************************)
\* the ray SurfaceGroup::intersect hands to its first child
SurfaceGroup_local_ray(g, r) == Transform_ray(Transform_inverse(g.m_xform), r)

\* the children that report a hit when they are handed the local ray
ChildrenHit(g, r, hit) ==
    {i \in 1..Len(g.m_surfaces) :
        Surface_intersect(g.m_surfaces[i], SurfaceGroup_local_ray(g, r), hit).ret}

\* C21: SurfaceGroup::intersect tests its children with the interval of the
\* ray it was given, maxt shrunk to the closest hit found so far (so the
\* first child is tested with the caller's mint and maxt); it returns true
\* iff a child reports a hit, and then hit.t lies in the caller's interval.
C21_GroupLinearScan ==
    (phase = "built" /\ resG # NoVal) =>
        /\ SurfaceGroup_local_ray(grp, ray).mint = ray.mint
        /\ SurfaceGroup_local_ray(grp, ray).maxt = ray.maxt
        /\ resG.ret <=> (ChildrenHit(grp, ray, hit0) # {})
        /\ resG.ret => (LessEq(ray.mint, resG.hit.t) /\ LessEq(resG.hit.t, ray.maxt))

(***************************************************************************)
(* A shape tree under construction.  A group holds shared_ptrs to its      *)
(* children, so a child group is held by its position in gheap and can     *)
(* still receive children after it has been added to its parent.           *)
(***************************************************************************)
\* shared_ptr<Surface> to the SurfaceGroup gheap[id]
Ptr(id) == [type |-> "ptr", id |-> id]

\* child->bounds() through the pointer the group holds
Heap_bounds(heap, child) ==
    IF child.type = "ptr" THEN Surface_bounds(heap[child.id]) ELSE Surface_bounds(child)

\* SurfaceGroup::add_child on the group heap[g]
Heap_add_child(heap, g, child) ==
    [heap EXCEPT ![g] = [@ EXCEPT !.m_surfaces = Append(@, child),
                                  !.m_bounds = Box_enclose(@, Heap_bounds(heap, child))]]

\* SurfaceGroup::local_bounds
SurfaceGroup_local_bounds(g) == g.m_bounds

TreeLeaves ==
    {Sphere_new(F(1), 1, Transform_default),
     Triangle_new(<<VecOf(<<0, 0, 0>>), VecOf(<<1, 0, 0>>), VecOf(<<0, 1, 0>>)>>, 1),
     Triangle_new(<<VecOf(<<2, 0, 0>>), VecOf(<<2, 2, 0>>), VecOf(<<2, 0, 2>>)>>, 1)}

\* the groups that hold a pointer to the group id
ParentsOf(heap, id) ==
    {p \in DOMAIN heap : \E i \in DOMAIN heap[p].m_surfaces : heap[p].m_surfaces[i] = Ptr(id)}

RECURSIVE Ancestors(_, _, _)
\* the groups from which id is reached in at most n steps down
Ancestors(heap, id, n) ==
    IF n = 0 THEN {id}
    ELSE LET a == Ancestors(heap, id, n - 1)
         IN  a \cup UNION {ParentsOf(heap, x) : x \in a}

InitTree ==
    /\ gstep = "run"
    /\ gheap = <<SurfaceGroup_new(Transform_default)>>
    /\ IdleBox /\ IdleXf /\ IdleIsect /\ IdleLoad /\ IdleRace
    /\ IdleCall /\ IdleKD /\ IdleBar /\ IdleArr

\* make_shared<SurfaceGroup>(j)
TreeNewGroup ==
    /\ gstep = "run"
    /\ Len(gheap) < MaxGroups
    /\ gheap' = Append(gheap, SurfaceGroup_new(Transform_default))
    /\ UNCHANGED gstep
    /\ UNCHANGED <<boxVars, xfVars, isectVars, loadVars, raceVars>>
    /\ UNCHANGED <<callVars, kdVars, barVars, arrVars>>

\* group->add_child(leaf)
TreeAddLeaf ==
    /\ gstep = "run"
    /\ \E g \in DOMAIN gheap, leaf \in TreeLeaves :
          /\ Len(gheap[g].m_surfaces) < MaxChildren
          /\ gheap' = Heap_add_child(gheap, g, leaf)
    /\ UNCHANGED gstep
    /\ UNCHANGED <<boxVars, xfVars, isectVars, loadVars, raceVars>>
    /\ UNCHANGED <<callVars, kdVars, barVars, arrVars>>

\* parent->add_child(child) for a group that has no parent yet and is not
\* above the parent
TreeAddGroup ==
    /\ gstep = "run"
    /\ \E p \in DOMAIN gheap, c \in DOMAIN gheap :
          /\ Len(gheap[p].m_surfaces) < MaxChildren
          /\ ParentsOf(gheap, c) = {}
          /\ c \notin Ancestors(gheap, p, Len(gheap))
          /\ gheap' = Heap_add_child(gheap, p, Ptr(c))
    /\ UNCHANGED gstep
    /\ UNCHANGED <<boxVars, xfVars, isectVars, loadVars, raceVars>>
    /\ UNCHANGED <<callVars, kdVars, barVars, arrVars>>

NextTree == TreeNewGroup \/ TreeAddLeaf \/ TreeAddGroup

SpecTree == InitTree /\ [][NextTree]_vars

RECURSIVE UnionOfBounds(_, _, _)
\* the union of bounds() of the first n children of a group
UnionOfBounds(heap, surfaces, n) ==
    IF n = 0 THEN Box_default(3)
    ELSE Box_enclose(UnionOfBounds(heap, surfaces, n - 1), Heap_bounds(heap, surfaces[n]))

\* C22: after any sequence of add_child calls, the box every group stores
\* is the union of bounds() of the children it holds.
C22_GroupBoundsIsUnion ==
    \A g \in DOMAIN gheap :
        SurfaceGroup_local_bounds(gheap[g])
            = UnionOfBounds(gheap, gheap[g].m_surfaces, Len(gheap[g].m_surfaces))

(***************************************************************************)
(* Claims about the tree BBH::build makes                                  *)
(***************************************************************************)
RECURSIVE LeafSurfaces(_)
\* the surfaces held by the leaves below a node of the hierarchy, in order:
\* a BBHLeaf holds a list, a primitive held by a BBHNode is a leaf itself
LeafSurfaces(n) ==
    CASE n.type = "null"    -> <<>>
      [] n.type = "bbhleaf" -> n.surfaces
      [] n.type = "bbhnode" -> LeafSurfaces(n.left_child) \o LeafSurfaces(n.right_child)
      [] OTHER              -> <<n>>

\* how often the surface s occurs in the list
Occurrences(list, s) == Cardinality({i \in DOMAIN list : list[i] = s})

\* C23: after build() over a non-empty child list every child of the BBH is
\* held by exactly one leaf of the tree rooted at root.
C23_EveryChildInOneLeaf ==
    (phase = "built" /\ Len(bbh.m_surfaces) > 0) =>
        \A i \in DOMAIN bbh.m_surfaces :
            Occurrences(LeafSurfaces(bbh.root), bbh.m_surfaces[i])
                = Occurrences(bbh.m_surfaces, bbh.m_surfaces[i])

(***************************************************************************)
(* Claims about SurfaceGroup::sample_child on a group with children        *)
(***************************************************************************)
\* rv1 lies in [0, 1)
InUnitInterval(a) == LessEq(F(0), a) /\ Less(a, F(1))

\* C24: on a group of N >= 1 children and rv1 in [0, 1), sample_child returns
\* the child at index floor(rv1 * N) with probability 1 / N, and leaves
\* rv1 * N - index, a number in [0, 1), in rv1.
C24_SampleChildUniform ==
    (/\ cstep = "done" /\ cop = "sample_child"
     /\ Len(cself.m_surfaces) >= 1 /\ InUnitInterval(carg)) =>
        LET N  == Len(cself.m_surfaces)
            sx == Mul(carg, F(N))
        IN  /\ ~cout.threw
            /\ cout.index \in 0..(N - 1)
            /\ LessEq(F(cout.index), sx) /\ Less(sx, F(cout.index + 1))
            /\ FEq(Mul(cout.pdf, F(N)), F(1))
            /\ FEq(Add(cout.rv1, F(cout.index)), sx)
            /\ InUnitInterval(cout.rv1)

\* sample_child with rv1 = 3/4 on a group of two children chose the second
\* child and left 1/2 in rv1
C24_Witness ==
    /\ cstep = "done" /\ cop = "sample_child" /\ Len(cself.m_surfaces) = 2
    /\ carg = Frac(3, 4) /\ ~cout.threw
    /\ cout.index = 1 /\ cout.rv1 = Frac(1, 2) /\ cout.pdf = Frac(1, 2)

(***************************************************************************)
(* Claims about the default-constructed Box                                *)
(***************************************************************************)
\* C25: Box::intersect on a default-constructed (empty) box returns false
\* for every ray, whatever its origin, direction and [mint, maxt].
C25_EmptyBoxNeverHit ==
    (bstep = "isect" /\ box = Box_default(2) /\ boxHit # "none") => boxHit = "false"

(***************************************************************************)
(* Claims about the rays Quad::intersect rejects.  The quads of            *)
(* CallSurfaces have the identity transform: the local ray is the ray.     *)
(***************************************************************************)
\* the parameter at which the ray r crosses the plane z = 0
QuadPlaneT(r) == Div(Neg(r.o[3]), r.d[3])

\* r is parallel to the plane of the quad
QuadParallel(r) == FEq(r.d[3], F(0))

\* r crosses the plane outside the rectangle of half-extents q.m_size
QuadOutside(q, r) ==
    LET p == Ray_at(r, QuadPlaneT(r))
    IN  ~QuadParallel(r) /\ (Less(q.m_size[1], FAbs(p[1])) \/ Less(q.m_size[2], FAbs(p[2])))

\* r crosses the plane at a parameter outside [mint, maxt]
QuadOutOfInterval(r) ==
    ~QuadParallel(r) /\ (Less(QuadPlaneT(r), r.mint) \/ Less(r.maxt, QuadPlaneT(r)))

C26_WitnessParallel ==
    /\ cstep = "done" /\ cop = "intersect" /\ cself.type = "quad"
    /\ QuadParallel(carg) /\ ~cout.ret

\* a ray that crosses the rectangle outside its [mint, maxt] was rejected
C26_WitnessInterval ==
    /\ cstep = "done" /\ cop = "intersect" /\ cself.type = "quad"
    /\ ~QuadOutside(cself, carg) /\ QuadOutOfInterval(carg) /\ ~cout.ret

(***************************************************************************)
(* Claims about Triangle::bounds                                           *)
(***************************************************************************)
\* C27: for every triangle, those in an axis-aligned plane and those with
\* coincident vertices included, Triangle::bounds() contains the three
\* vertices and has a strictly positive extent along every axis.
C27_TriangleBoundsThick ==
    (cstep = "done" /\ cop = "bounds") =>
        /\ \A v \in 1..3 : Inside(cout, cself.vs[v])
        /\ \A i \in 1..3 : Less(cout.min[i], cout.max[i])

(***************************************************************************)
(* Claims about parsing a Transform                                        *)
(***************************************************************************)
RECURSIVE ProductOfCommands(_, _)
\* cn * ... * c2 * c1 * identity for the first n commands of a list
ProductOfCommands(elems, n) ==
    IF n = 0 THEN la_identity
    ELSE mul(from_json_Mat44(elems[n], la_identity).m, ProductOfCommands(elems, n - 1))

KnownCommands(elems) == \A i \in DOMAIN elems : ~from_json_Mat44(elems[i], la_identity).threw

\* C28: a transform given as a list of commands [c1, ..., cn] composes left
\* to right: the forward matrix of the parsed Transform is cn * ... * c2 * c1
\* starting from the identity, and its stored inverse is the inverse of that
\* product.
C28_CommandsComposeInOrder ==
    (cstep = "done" /\ cop = "from_json" /\ carg.kind = "array" /\ KnownCommands(carg.elems)) =>
        LET product == ProductOfCommands(carg.elems, Len(carg.elems))
        IN  /\ ~cout.threw
            /\ cout.v.m = product
            /\ ~IsZero(la_determinant(product)) =>
                   /\ MatEq(mul(cout.v.m_inv, product), la_identity)
                   /\ MatEq(mul(product, cout.v.m_inv), la_identity)

\* a list of three commands was parsed whose product depends on the order
C28_Witness ==
    /\ cstep = "done" /\ cop = "from_json" /\ carg.kind = "array"
    /\ Len(carg.elems) = 3 /\ KnownCommands(carg.elems) /\ ~cout.threw
    /\ cout.v.m = ProductOfCommands(carg.elems, 3)
    /\ cout.v.m # from_json_elements_reversed(carg.elems, 1, la_identity).m
    /\ ~IsZero(la_determinant(cout.v.m))
    /\ cout.v.m_inv # la_identity

(***************************************************************************)
(* Claims about Barrier as a rendezvous                                    *)
(***************************************************************************)
\* the threads whose call of block() has taken the mutex
BEntered == {t \in BThreads : bpc[t] # "start"}

\* C29: on a Barrier constructed for n tasks no call of block() returns
\* before n calls of block() have been entered, and once the n-th call has
\* been entered every one of the n calls eventually returns.
C29_BarrierRendezvous ==
    /\ [](BReturned # {} => BEntered = BThreads)
    /\ (BEntered = BThreads) ~> (BReturned = BThreads)

\* the first call has returned while another thread, which entered before
\* the last one, has not yet left its wait
C29_Witness ==
    /\ Cardinality(BThreads) >= 3
    /\ Cardinality(BReturned) = 1
    /\ \E u \in BThreads : bpc[u] = "waiting"

(***************************************************************************)
(* Claims about FixedRadiusProcess                                         *)
(***************************************************************************)
\* the number of invocations of f with node i
KDCalls(i) == Cardinality({c \in DOMAIN ksearch.calls : ksearch.calls[c].photon = i})

\* C30: after any points have been inserted and build() has run, find() with
\* a FixedRadiusProcess(q, r2, f) invokes f exactly once for each stored
\* point whose squared distance to q is less than r2 and never for another
\* point.
C30_FixedRadiusVisitsAll ==
    (kstep = "done" /\ "calls" \in DOMAIN ksearch) =>
        /\ \A i \in 0..(Len(knodes) - 1) :
              KDCalls(i) = IF KDDist2(i) < ksearch.md2 THEN 1 ELSE 0
        /\ \A c \in DOMAIN ksearch.calls :
              /\ ksearch.calls[c].photon \in 0..(Len(knodes) - 1)
              /\ ksearch.calls[c].dist2 = KDDist2(ksearch.calls[c].photon)

\* a search over three stored points has ended: f was invoked for two of
\* them and the third lies exactly at the radius
C30_Witness ==
    /\ kstep = "done" /\ "calls" \in DOMAIN ksearch
    /\ Len(knodes) = 3 /\ Len(ksearch.calls) = 2
    /\ \E i \in 0..2 : KDDist2(i) = ksearch.md2

====
